---------------------------- MODULE Spec2Model ----------------------------
(***************************************************************************)
(* A model of the piano visualizer: the key input controller               *)
(* (Piano/PianoController.ts), the active-key tracker (Piano/Piano.ts),    *)
(* the note roll (PianoRoll.ts), the facade that wires them                *)
(* (Visualization/Visualization.ts), the layout (Layout.ts) and the        *)
(* viewport gesture controller (Visualization/VisualizationController.ts). *)
(*                                                                         *)
(* Each component has its own specification over the shared variables:     *)
(*   SpecKeys     the key input controller                                 *)
(*   SpecTracker  the active-key tracker's keyDown / keyUp / render        *)
(*   SpecNotes    the facade's startNote / endNote on tracker and roll     *)
(*   SpecGesture  layout, viewport controller and the animation tick       *)
(* A specification leaves the variables of the other components alone.     *)
(***************************************************************************)
EXTENDS Integers, Sequences, FiniteSets, TLC

VARIABLES
  \* ---- PianoController ----
  isMouseDown,     \* PianoController.isMouseDown
  mouseMidi,       \* PianoController.mouseMidi (NoNote for null)
  touchMidiById,   \* PianoController.touchMidiById: a Map, as a function on its keys
  emitted,         \* the onKeyDown / onKeyUp calls made by the last input event, in order
  lastOp,          \* the last input event: handler name and its arguments
  pre,             \* the controller's fields as they were when the last event arrived
  \* ---- layout fields the key controller reads ----
  width,           \* Layout.width
  height,          \* Layout.height
  pianoHeight,     \* Layout.pianoHeight
  \* ---- Piano (active-key tracker) ----
  activeKeys,      \* Piano.activeKeys: Map<number, ActiveKey[]>, as a function on its keys
  needsRedraw,     \* Piano.needsRedraw
  drawnColor,      \* the highlight color each key's graphic was last drawn with
  \* ---- PianoRoll ----
  blocks,          \* PianoRoll.blocks: Map<number, Block[]>, as a function on its keys
  graphicsPool,    \* PianoRoll.graphicsPool: its pool, and the number of Graphics created
  \* ---- observation of the facade's calls ----
  pressCount,      \* number of startNote calls so far (orders the presses)
  lastCall,        \* the facade's last call and its arguments
  \* ---- Layout (viewport) ----
  widthFactor,     \* Layout.widthFactor
  layoutX,         \* Layout.x
  \* ---- VisualizationController ----
  mouseContext,    \* VisualizationController.mouseContext
  pinchContext,    \* VisualizationController.pinchContext: its initialWidthFactor, or NoPinch
  \* ---- Visualization (facade) and the controller's callbacks ----
  renderContainerX,   \* renderContainer.x, set by onContainerXChange and the ticker
  containerTargetX,   \* Visualization.containerTargetX, set by onContainerTargetXChange
  widthFactorLive,    \* the last argument of onWidthFactorChange
  widthFactorTarget,  \* the last argument of onWidthFactorTargetChange
  \* ---- observation of the gestures ----
  reported,        \* the last position the current gesture passed to onContainerXChange
  gestureCount,    \* number of gestures begun so far
  gestureCall,     \* the last viewport event, and the layout as it was when it arrived
  mouseEvent,      \* clientX and clientY of the last mouse event that carried them
  called,          \* number of the controller's callbacks the last step invoked
  \* ---- dispose, debounce and the browser's timers ----
  disposed,        \* abortController.signal.aborted
  now,             \* the clock, in milliseconds
  timeoutId,       \* debounce's timeoutId, for each debounced function
  pendingTimers,   \* the timers set and neither cleared nor run
  timerCount,      \* the timer ids handed out so far
  callLog,         \* for each debounced function, its calls: time and arguments
  callbackLog,     \* for each debounced function, its callback's runs: time and arguments
  \* ---- Layout.range, and the observation of the calls made on Layout ----
  rangeCenterMidi,   \* Layout.range.centerMidi
  rangeVisibleKeys,  \* Layout.range.visibleKeys
  layoutCall,      \* the last call made on Layout and its arguments
  layoutCalls,     \* number of calls made on Layout so far
  layoutWas,       \* the Layout fields before the last call
  warnings,        \* number of console.warn calls made by Layout so far
  \* ---- GestureAnimator ----
  animCurrent,     \* GestureAnimator.x.current
  animTarget,      \* GestureAnimator.x.target
  animNotified,    \* the positions the last call passed to onPositionChange, in order
  animCall,        \* the last call made on the animator and its argument
  animWas,         \* x.current and x.target before the last call
  animCalls,       \* number of calls made on the animator so far
  \* ---- queries of Layout and Pitch ----
  query,           \* the last query made and what it returned
  \* ---- VisualizationController: touch contacts on the roll ----
  touches,         \* the contacts on the screen (e.touches): identifier to clientX
  touchContext,    \* VisualizationController.touchContext: an object, as a function on its keys
  pinchOrigin      \* pinchContext.initialDistance and initialCenter of a touch pinch, and
                   \* the contacts they were taken from

keyVars == <<isMouseDown, mouseMidi, touchMidiById, emitted, lastOp, pre>>
dimVars == <<width, height, pianoHeight>>
noteVars == <<activeKeys, needsRedraw, drawnColor, blocks, graphicsPool, pressCount, lastCall>>
gestureVars == <<widthFactor, layoutX, mouseContext, pinchContext, renderContainerX,
                 containerTargetX, widthFactorLive, widthFactorTarget, reported,
                 gestureCount, gestureCall, mouseEvent, called>>
wheelVars == <<disposed, now, timeoutId, pendingTimers, timerCount, callLog, callbackLog>>
rangeVars == <<rangeCenterMidi, rangeVisibleKeys, layoutCall, layoutCalls, layoutWas, warnings>>
animVars == <<animCurrent, animTarget, animNotified, animCall, animWas, animCalls>>
queryVars == <<query>>
touchVars == <<touches, touchContext, pinchOrigin>>
vars == <<keyVars, dimVars, noteVars, gestureVars, wheelVars, rangeVars, animVars, queryVars, touchVars>>

----------------------------------------------------------------------------
(* Bounds of the model *)

\* keys of the keyboard the model's pointer can reach: keys 0 .. NumKeys-1
NumKeys == 3
\* touch pointer ids 1 .. MaxPointers
MaxPointers == 2
\* startNote calls in one behaviour
MaxPresses == 2
\* the height up to which the model lets a held block grow
MaxBlockHeight == 400

(* Program constants *)

\* const midi = key + 21
FirstMidi == 21

\* VIZ_CONFIG.DEFAULT_PIANO_HEIGHT
DEFAULT_PIANO_HEIGHT == 250

\* MIDI_RANGE.MIN (A0) and MIDI_RANGE.MAX (C8)
MIDI_MIN == 21
MIDI_MAX == 108

NoNote == -1   \* null / undefined: no note held

KeyNotes == FirstMidi .. (FirstMidi + NumKeys - 1)
Pointers == 1 .. MaxPointers

----------------------------------------------------------------------------
(* Layout: the getters PianoController uses *)

\* the container size the key controller's layout is built with
Widths == {800}
Heights == {600}

getPianoY == height - pianoHeight
getHeight == height
getWidth == width

----------------------------------------------------------------------------
(* Numbers: JavaScript numbers as exact fractions <<numerator, denominator>> *)

Abs(i) == IF i < 0 THEN -i ELSE i

\* F applied to the value of e, which is computed once however often F uses it
With(e, F(_)) == CHOOSE result \in {F(value) : value \in {e}} : TRUE

RECURSIVE GCD(_, _)
GCD(a, b) == IF b = 0 THEN a ELSE GCD(b, a % b)

\* the value of 0 / 0 and of Infinity - Infinity; <<1, 0>> and <<-1, 0>> are the infinities
NaN == <<0, 0>>
IsNaN(a) == a = NaN

\* the fraction n / d in lowest terms, with a positive denominator
Rat(n, d) ==
  LET s == IF d < 0 THEN -1 ELSE 1
      g == GCD(Abs(n), Abs(d))
  IN IF g = 0 THEN NaN ELSE <<(s * n) \div g, (s * d) \div g>>

Num(i) == <<i, 1>>
\* sums and comparisons over the least common denominator, products cancelled crosswise
Plus(a, b) ==
  LET g == GCD(a[2], b[2])
  IN IF IsNaN(a) \/ IsNaN(b) THEN NaN
     ELSE IF a[2] = 0 /\ b[2] = 0 THEN (IF a[1] = b[1] THEN a ELSE NaN)
     ELSE Rat(a[1] * (b[2] \div g) + b[1] * (a[2] \div g), (a[2] \div g) * b[2])
Minus(a, b) == Plus(a, <<-b[1], b[2]>>)
Times(a, b) ==
  LET g1 == GCD(Abs(a[1]), b[2])
      g2 == GCD(Abs(b[1]), a[2])
  IN IF IsNaN(a) \/ IsNaN(b) THEN NaN
     ELSE IF (a[1] = 0 /\ b[2] = 0) \/ (b[1] = 0 /\ a[2] = 0) THEN NaN
     ELSE Rat((a[1] \div g1) * (b[1] \div g2), (a[2] \div g2) * (b[2] \div g1))
Over(a, b) == Times(a, IF b[1] < 0 THEN <<-b[2], -b[1]>> ELSE <<b[2], b[1]>>)
Less(a, b) ==
  LET g == GCD(a[2], b[2])
  IN IF IsNaN(a) \/ IsNaN(b) THEN FALSE
     ELSE IF a[2] = 0 /\ b[2] = 0 THEN a[1] < b[1]
     ELSE a[1] * (b[2] \div g) < b[1] * (a[2] \div g)
LessEq(a, b) == ~IsNaN(a) /\ ~IsNaN(b) /\ ~Less(b, a)
\* a === b
StrictEquals(a, b) == ~IsNaN(a) /\ a = b

MathMin(a, b) == IF IsNaN(a) \/ IsNaN(b) THEN NaN ELSE IF Less(b, a) THEN b ELSE a
MathMax(a, b) == IF IsNaN(a) \/ IsNaN(b) THEN NaN ELSE IF Less(a, b) THEN b ELSE a
MathAbs(a) == <<Abs(a[1]), a[2]>>
\* Math.round: the nearest integer, a half rounding up
MathRound(a) == (2 * a[1] + a[2]) \div (2 * a[2])

----------------------------------------------------------------------------
(* Layout: clamping and quantization of pan and zoom *)

NATURAL_KEY_WIDTH == 100
ACCIDENTAL_KEY_WIDTH == NATURAL_KEY_WIDTH \div 2
OCTAVE_WIDTH == NATURAL_KEY_WIDTH * 7
DEFAULT_X_OFFSET == 35 * NATURAL_KEY_WIDTH
CHROMA_X_POSITIONS == <<0, 75, 100, 175, 200, 300, 375, 400, 475, 500, 575, 600>>
NATURAL_CHROMA == {0, 2, 4, 5, 7, 9, 11}
BREAKPOINT_RANGES == <<<<700, 8>>, <<1200, 12>>, <<1600, 16>>>>

\* Pitch: chroma and octave of a note
\* a % b of JavaScript: the remainder has the sign of a
JsRemainder(a, b) == IF a < 0 THEN -((-a) % b) ELSE a % b
PitchChroma(midi) == JsRemainder(midi, 12)
PitchOctave(midi) == midi \div 12
PitchIsNatural(midi) == PitchChroma(midi) \in NATURAL_CHROMA

\* the key positions with octaves one natural key too narrow
getKeyElementX_NarrowOctave(midi, wf) ==
  Times(Num(CHROMA_X_POSITIONS[PitchChroma(midi) + 1]
              + PitchOctave(midi) * (OCTAVE_WIDTH - NATURAL_KEY_WIDTH) - DEFAULT_X_OFFSET), wf)

\* Layout.getKeyElement(midi).x and .width at a width factor
getKeyElementX(midi, wf) ==
  Times(Num(CHROMA_X_POSITIONS[PitchChroma(midi) + 1]
              + PitchOctave(midi) * OCTAVE_WIDTH - DEFAULT_X_OFFSET), wf)
getKeyElementWidth(midi, wf) ==
  Times(Num(IF PitchIsNatural(midi) THEN NATURAL_KEY_WIDTH ELSE ACCIDENTAL_KEY_WIDTH), wf)

\* Layout.getBreakpointRange at a width
RECURSIVE BreakpointFrom(_, _)
BreakpointFrom(w, i) ==
  IF i > Len(BREAKPOINT_RANGES) THEN 16
  ELSE IF w < BREAKPOINT_RANGES[i][1] THEN BREAKPOINT_RANGES[i][2]
  ELSE BreakpointFrom(w, i + 1)
\* the breakpoints with the middle tier left out
getBreakpointRange_TwoTiers(w) == IF w < BREAKPOINT_RANGES[1][1] THEN 8 ELSE 16

getBreakpointRange(w) == BreakpointFrom(w, 1)

\* Layout.setVisibleKeys: the width factor that shows visibleKeys natural keys
widthFactorOfVisibleKeys(w, visibleKeys) ==
  Over(Rat(w, NATURAL_KEY_WIDTH), Num(visibleKeys))

\* Layout.getClampedX
getClampedX(w, wf, px, forceAllowPanning) ==
  LET firstKeyX == getKeyElementX(MIDI_MIN, wf)
      lastKeyRight == Plus(getKeyElementX(MIDI_MAX, wf), getKeyElementWidth(MIDI_MAX, wf))
      pianoWidth == Minus(lastKeyRight, firstKeyX)
      minX == MathMin(Num(0), Minus(Num(w), lastKeyRight))
      maxX == MathMax(Num(0), Minus(Num(0), firstKeyX))
  IN IF LessEq(pianoWidth, Num(w)) /\ ~forceAllowPanning
     THEN Minus(Over(Minus(Num(w), pianoWidth), Num(2)), firstKeyX)
     ELSE MathMax(minX, MathMin(maxX, px))

\* Layout.getQuantizedX
getQuantizedX(wf, px) ==
  LET keyWidth == Times(Num(NATURAL_KEY_WIDTH), wf)
  IN Times(Num(MathRound(Over(px, keyWidth))), keyWidth)

\* Layout.getClampedWidthFactor
getClampedWidthFactor(w, wf) ==
  LET screenKeys == Rat(w, NATURAL_KEY_WIDTH)
      visibleKeys == Over(screenKeys, wf)
      clampedVisibleKeys == MathMax(Num(5), MathMin(Num(52), visibleKeys))
  IN Over(screenKeys, clampedVisibleKeys)

\* Layout.getQuantizedWidthFactor
getQuantizedWidthFactor(w, wf) ==
  LET naturalKeysVisible == Over(Num(w), Times(Num(NATURAL_KEY_WIDTH), wf))
      quantizedNaturalKeys == MathRound(naturalKeysVisible)
  IN Over(Num(w), Times(Num(NATURAL_KEY_WIDTH), Num(quantizedNaturalKeys)))

\* a zoom that leaves the pan where it was, only clamped to the new bounds
setWidthFactor_KeepsPan(w, wf, px, newWidthFactor) ==
  LET clampedFactor == getClampedWidthFactor(w, newWidthFactor)
  IN IF StrictEquals(clampedFactor, wf)
     THEN [widthFactor |-> wf, x |-> px]
     ELSE [widthFactor |-> clampedFactor, x |-> getClampedX(w, clampedFactor, px, FALSE)]

\* Layout.setWidthFactor: the layout's width factor and x afterwards
setWidthFactor(w, wf, px, newWidthFactor) ==
  LET clampedFactor == getClampedWidthFactor(w, newWidthFactor)
      screenCenterX == Rat(w, 2)
      worldCenterX == Minus(screenCenterX, px)
      scaledWorldCenterX == Times(worldCenterX, Over(clampedFactor, wf))
      newX == Minus(screenCenterX, scaledWorldCenterX)
  IN IF StrictEquals(clampedFactor, wf)
     THEN [widthFactor |-> wf, x |-> px]
     ELSE [widthFactor |-> clampedFactor,
           x |-> getClampedX(w, clampedFactor, newX, FALSE)]

\* Layout.getSection
getSection(py) == IF py < getPianoY THEN "PIANO_ROLL" ELSE "PIANO"

\* GestureAnimator: x = { current: 0, target: 0 }
NoCall == [op |-> "new", arg |-> Num(0)]
InitAnimator ==
  /\ animCurrent = Num(0)
  /\ animTarget = Num(0)
  /\ animNotified = <<>>
  /\ animCall = NoCall
  /\ animWas = [current |-> Num(0), target |-> Num(0)]
  /\ animCalls = 0

\* no query made yet
NoQuery == [op |-> "none", midi |-> 0, x |-> Num(0), back |-> 0, chroma |-> 0, octave |-> 0]
InitQueries == query = NoQuery

\* the fields of Layout that its setters write
LayoutFields ==
  [width |-> width, height |-> height, widthFactor |-> widthFactor, x |-> layoutX,
   centerMidi |-> rangeCenterMidi, visibleKeys |-> rangeVisibleKeys]

\* the Layout constructor: range = { centerMidi: 60, visibleKeys: breakpointRange }
InitRange ==
  /\ rangeCenterMidi = 60
  /\ rangeVisibleKeys = Num(getBreakpointRange(width))
  /\ layoutCall = [op |-> "new", a |-> Num(width), b |-> Num(0)]
  /\ layoutCalls = 0
  /\ layoutWas = LayoutFields
  /\ warnings = 0

\* Layout.setWidthFactor called by the controller: range.visibleKeys follows the
\* width factor it stores; nothing else of the range changes
RangeFollows ==
  /\ rangeVisibleKeys' = IF StrictEquals(widthFactor', widthFactor)
                         THEN rangeVisibleKeys
                         ELSE Over(Rat(width, NATURAL_KEY_WIDTH), widthFactor')
  /\ UNCHANGED <<rangeCenterMidi, layoutCall, layoutCalls, layoutWas, warnings>>
  /\ UNCHANGED <<animVars, queryVars, touchVars>>

\* the Layout constructor, and the fields of the facade and the viewport controller
NoReport == <<0, 0>>      \* no position reported yet
NoPinch == <<0, 0>>       \* pinchContext = null
\* no touch pinch recorded
NoOrigin == [initialDistance |-> <<0, 1>>, initialCenter |-> <<0, 1>>, pair |-> {}]
InitGesture ==
  /\ widthFactor = widthFactorOfVisibleKeys(width, getBreakpointRange(width))
  /\ layoutX = Num(0)
  /\ mouseContext = [isDown |-> FALSE, clientX |-> 0, containerX |-> Num(0)]
  /\ pinchContext = NoPinch
  /\ touches = <<>>
  /\ touchContext = <<>>
  /\ pinchOrigin = NoOrigin
  /\ renderContainerX = Num(0)
  /\ containerTargetX = Num(0)
  /\ widthFactorLive = NoReport
  /\ widthFactorTarget = NoReport
  /\ reported = NoReport
  /\ gestureCount = 0
  /\ gestureCall = [op |-> "new", widthFactor |-> NoReport, x |-> NoReport,
                    reported |-> NoReport]
  /\ mouseEvent = [clientX |-> 0, clientY |-> 0]
  /\ called = 0

\* debounce and the browser's timers: a timer is [fn, id, due, args]
NoTimeout == 0            \* timeoutId = null
Debounced == {"onWheelSettled", "debouncedFn"}

\* window.clearTimeout without a check of the id it is given
clearTimeout_Noop(timers, id) == timers

\* window.clearTimeout
clearTimeout(timers, id) == {t \in timers : t.id # id}

\* window.setTimeout
setTimeout(timers, fn, id, due, args) ==
  timers \cup {[fn |-> fn, id |-> id, due |-> due, args |-> args]}

\* the function debounce returns, called with args at time t: the timers afterwards
debounced(timers, oldId, fn, newId, t, wait, args) ==
  setTimeout(IF oldId # NoTimeout THEN clearTimeout(timers, oldId) ELSE timers,
             fn, newId, t + wait, args)

\* the controller is constructed and listening; no debounced call was made
InitWheel ==
  /\ disposed = FALSE
  /\ now = 0
  /\ timeoutId = [fn \in Debounced |-> NoTimeout]
  /\ pendingTimers = {}
  /\ timerCount = 0
  /\ callLog = [fn \in Debounced |-> <<>>]
  /\ callbackLog = [fn \in Debounced |-> <<>>]

----------------------------------------------------------------------------
(* PianoController *)

KeyDown(midi) == [cb |-> "onKeyDown", midi |-> midi]
KeyUp(midi) == [cb |-> "onKeyUp", midi |-> midi]

\* touchMidiById.get(pointerId): NoNote when the map has no entry
TouchGet(map, pointerId) ==
  IF pointerId \in DOMAIN map THEN map[pointerId] ELSE NoNote

\* touchMidiById.set(pointerId, midi)
TouchSet(map, pointerId, midi) ==
  [q \in (DOMAIN map) \cup {pointerId} |-> IF q = pointerId THEN midi ELSE map[q]]

\* a delete that clears the whole map
TouchDelete_ClearsAll(map, pointerId) ==
  [q \in {} |-> NoNote]

\* touchMidiById.delete(pointerId)
TouchDelete(map, pointerId) ==
  [q \in (DOMAIN map) \ {pointerId} |-> map[q]]

\* a bounds test that looks at the vertical position only
isEventOutsidePiano_VerticalOnly(clientX, clientY) ==
  \/ clientY > getHeight
  \/ clientY < getPianoY

isEventOutsidePiano(clientX, clientY) ==
  \/ clientY > getHeight     \* below piano
  \/ clientY < getPianoY     \* above piano
  \/ clientX < 0             \* left of piano
  \/ clientX > getWidth      \* right of piano

Snapshot ==
  [isMouseDown |-> isMouseDown, mouseMidi |-> mouseMidi, touchMidiById |-> touchMidiById]

\* the field initialisers
InitController ==
  /\ isMouseDown = FALSE
  /\ mouseMidi = NoNote
  /\ touchMidiById = <<>>
  /\ emitted = <<>>
  /\ lastOp = [op |-> "new", midi |-> NoNote, pointerId |-> 0, x |-> 0, y |-> 0]
  /\ pre = [isMouseDown |-> FALSE, mouseMidi |-> NoNote, touchMidiById |-> <<>>]

\* a handleTouchEnd that forgets to delete the pointer's entry
handleTouchEnd_KeepsEntry(map, calls, pointerId) ==
  LET pointerMidi == TouchGet(map, pointerId) IN
  [map |-> map,
   calls |-> IF pointerMidi # NoNote THEN Append(calls, KeyUp(pointerMidi)) ELSE calls]

\* handleTouchEnd(pointerId), as a function of the map and the calls made so far:
\* the resulting map and the calls
handleTouchEnd(map, calls, pointerId) ==
  LET pointerMidi == TouchGet(map, pointerId) IN
  [map |-> TouchDelete(map, pointerId),
   calls |-> IF pointerMidi # NoNote THEN Append(calls, KeyUp(pointerMidi)) ELSE calls]

\* graphic.on('mousedown')
MouseDownKey(midi) ==
  /\ pre' = Snapshot
  /\ lastOp' = [op |-> "mousedown", midi |-> midi, pointerId |-> 0, x |-> 0, y |-> 0]
  /\ emitted' = <<KeyDown(midi)>>
  /\ isMouseDown' = TRUE
  /\ mouseMidi' = midi
  /\ UNCHANGED <<touchMidiById, dimVars, noteVars, gestureVars, wheelVars>>
  /\ UNCHANGED <<rangeVars, animVars, queryVars, touchVars>>

\* graphic.on('mouseup')
MouseUpKey(midi) ==
  /\ pre' = Snapshot
  /\ lastOp' = [op |-> "mouseup", midi |-> midi, pointerId |-> 0, x |-> 0, y |-> 0]
  /\ isMouseDown' = FALSE
  /\ IF mouseMidi = NoNote
       THEN /\ emitted' = <<>>
            /\ mouseMidi' = mouseMidi
       ELSE /\ emitted' = <<KeyUp(mouseMidi)>>
            /\ mouseMidi' = NoNote
  /\ UNCHANGED <<touchMidiById, dimVars, noteVars, gestureVars, wheelVars>>
  /\ UNCHANGED <<rangeVars, animVars, queryVars, touchVars>>

\* a mouseenter that presses the new key without releasing the one the mouse holds
MouseEnterKey_NoRelease(midi) ==
  /\ pre' = Snapshot
  /\ lastOp' = [op |-> "mouseenter", midi |-> midi, pointerId |-> 0, x |-> 0, y |-> 0]
  /\ IF ~isMouseDown \/ mouseMidi = midi
       THEN /\ emitted' = <<>>
            /\ mouseMidi' = mouseMidi
       ELSE /\ emitted' = <<KeyDown(midi)>>
            /\ mouseMidi' = midi
  /\ UNCHANGED <<isMouseDown, touchMidiById, dimVars, noteVars, gestureVars, wheelVars>>
  /\ UNCHANGED <<rangeVars, animVars, queryVars, touchVars>>

\* graphic.on('mouseenter')
MouseEnterKey(midi) ==
  /\ pre' = Snapshot
  /\ lastOp' = [op |-> "mouseenter", midi |-> midi, pointerId |-> 0, x |-> 0, y |-> 0]
  /\ IF ~isMouseDown \/ mouseMidi = midi
       THEN /\ emitted' = <<>>
            /\ mouseMidi' = mouseMidi
       ELSE /\ emitted' = (IF mouseMidi # NoNote THEN <<KeyUp(mouseMidi)>> ELSE <<>>)
                            \o <<KeyDown(midi)>>
            /\ mouseMidi' = midi
  /\ UNCHANGED <<isMouseDown, touchMidiById, dimVars, noteVars, gestureVars, wheelVars>>
  /\ UNCHANGED <<rangeVars, animVars, queryVars, touchVars>>

\* graphic.on('touchstart')
TouchStartKey(midi, pointerId) ==
  /\ pre' = Snapshot
  /\ lastOp' = [op |-> "touchstart", midi |-> midi, pointerId |-> pointerId, x |-> 0, y |-> 0]
  /\ touchMidiById' = TouchSet(touchMidiById, pointerId, midi)
  /\ emitted' = <<KeyDown(midi)>>
  /\ UNCHANGED <<isMouseDown, mouseMidi, dimVars, noteVars, gestureVars, wheelVars>>
  /\ UNCHANGED <<rangeVars, animVars, queryVars, touchVars>>

\* a touchmove that presses the new key before it releases the old one
TouchMoveKey_DownBeforeUp(midi, pointerId) ==
  LET prevMidi == TouchGet(touchMidiById, pointerId) IN
  /\ pre' = Snapshot
  /\ lastOp' = [op |-> "touchmove", midi |-> midi, pointerId |-> pointerId, x |-> 0, y |-> 0]
  /\ IF prevMidi = midi
       THEN /\ emitted' = <<>>
            /\ touchMidiById' = touchMidiById
       ELSE /\ emitted' = <<KeyDown(midi)>>
                            \o (IF prevMidi # NoNote THEN <<KeyUp(prevMidi)>> ELSE <<>>)
            /\ touchMidiById' = TouchSet(touchMidiById, pointerId, midi)
  /\ UNCHANGED <<isMouseDown, mouseMidi, dimVars, noteVars, gestureVars, wheelVars>>
  /\ UNCHANGED <<rangeVars, animVars, queryVars, touchVars>>

\* graphic.on('touchmove')
TouchMoveKey(midi, pointerId) ==
  LET prevMidi == TouchGet(touchMidiById, pointerId) IN
  /\ pre' = Snapshot
  /\ lastOp' = [op |-> "touchmove", midi |-> midi, pointerId |-> pointerId, x |-> 0, y |-> 0]
  /\ IF prevMidi = midi
       THEN /\ emitted' = <<>>
            /\ touchMidiById' = touchMidiById
       ELSE /\ emitted' = (IF prevMidi # NoNote THEN <<KeyUp(prevMidi)>> ELSE <<>>)
                            \o <<KeyDown(midi)>>
            /\ touchMidiById' = TouchSet(touchMidiById, pointerId, midi)
  /\ UNCHANGED <<isMouseDown, mouseMidi, dimVars, noteVars, gestureVars, wheelVars>>
  /\ UNCHANGED <<rangeVars, animVars, queryVars, touchVars>>

\* graphic.on('touchend') and graphic.on('touchcancel'): the same body
TouchEndKey(midi, pointerId, op) ==
  LET r == handleTouchEnd(touchMidiById, <<>>, pointerId) IN
  /\ pre' = Snapshot
  /\ lastOp' = [op |-> op, midi |-> midi, pointerId |-> pointerId, x |-> 0, y |-> 0]
  /\ touchMidiById' = r.map
  /\ emitted' = r.calls
  /\ UNCHANGED <<isMouseDown, mouseMidi, dimVars, noteVars, gestureVars, wheelVars>>
  /\ UNCHANGED <<rangeVars, animVars, queryVars, touchVars>>

\* globalEventTarget.on('globaltouchend') and on('globaltouchcancel'): the same body
GlobalTouchEnd(pointerId, op) ==
  LET r == handleTouchEnd(touchMidiById, <<>>, pointerId) IN
  /\ pre' = Snapshot
  /\ lastOp' = [op |-> op, midi |-> NoNote, pointerId |-> pointerId, x |-> 0, y |-> 0]
  /\ touchMidiById' = r.map
  /\ emitted' = r.calls
  /\ UNCHANGED <<isMouseDown, mouseMidi, dimVars, noteVars, gestureVars, wheelVars>>
  /\ UNCHANGED <<rangeVars, animVars, queryVars, touchVars>>

\* One touch release over a key, delivered to the key's handler and then to the
\* region-wide handler: handleTouchEnd runs twice for the same pointer.
TouchReleaseBoth(midi, pointerId, op) ==
  LET r1 == handleTouchEnd(touchMidiById, <<>>, pointerId)
      r2 == handleTouchEnd(r1.map, r1.calls, pointerId) IN
  /\ pre' = Snapshot
  /\ lastOp' = [op |-> op, midi |-> midi, pointerId |-> pointerId, x |-> 0, y |-> 0]
  /\ touchMidiById' = r2.map
  /\ emitted' = r2.calls
  /\ UNCHANGED <<isMouseDown, mouseMidi, dimVars, noteVars, gestureVars, wheelVars>>
  /\ UNCHANGED <<rangeVars, animVars, queryVars, touchVars>>

\* globalEventTarget.on('globalmousemove'); the cursor hint is not modelled
GlobalMouseMove(clientX, clientY) ==
  /\ pre' = Snapshot
  /\ lastOp' = [op |-> "globalmousemove", midi |-> NoNote, pointerId |-> 0,
                x |-> clientX, y |-> clientY]
  /\ IF mouseMidi # NoNote /\ isEventOutsidePiano(clientX, clientY)
       THEN /\ emitted' = <<KeyUp(mouseMidi)>>
            /\ mouseMidi' = NoNote
            /\ isMouseDown' = FALSE
       ELSE /\ emitted' = <<>>
            /\ UNCHANGED <<mouseMidi, isMouseDown>>
  /\ UNCHANGED <<touchMidiById, dimVars, noteVars, gestureVars, wheelVars>>
  /\ UNCHANGED <<rangeVars, animVars, queryVars, touchVars>>

\* globalEventTarget.on('globaltouchmove')
GlobalTouchMove(pointerId, clientX, clientY) ==
  LET midi == TouchGet(touchMidiById, pointerId)
      r == handleTouchEnd(touchMidiById, <<>>, pointerId) IN
  /\ pre' = Snapshot
  /\ lastOp' = [op |-> "globaltouchmove", midi |-> NoNote, pointerId |-> pointerId,
                x |-> clientX, y |-> clientY]
  /\ IF midi # NoNote /\ isEventOutsidePiano(clientX, clientY)
       THEN /\ touchMidiById' = r.map
            /\ emitted' = r.calls
       ELSE /\ emitted' = <<>>
            /\ touchMidiById' = touchMidiById
  /\ UNCHANGED <<isMouseDown, mouseMidi, dimVars, noteVars, gestureVars, wheelVars>>
  /\ UNCHANGED <<rangeVars, animVars, queryVars, touchVars>>

----------------------------------------------------------------------------
(* Piano: the active-key tracker *)

NoId == "<undefined>"      \* identifier not passed
NoColor == "<undefined>"   \* color not passed / key not highlighted
DEFAULT_COLOR == "#5dadec" \* VIZ_CONFIG.DEFAULT_COLOR

\* !identifier: undefined and the empty string are falsy
Falsy(identifier) == identifier = NoId \/ identifier = ""

isValidMidi(midi) == ~(midi < MIDI_MIN \/ midi > MIDI_MAX)

\* entries.filter((activeKey) => activeKey.identifier !== identifier)
RECURSIVE FilterOutIdentifier(_, _)
FilterOutIdentifier(entries, identifier) ==
  IF entries = <<>> THEN <<>>
  ELSE (IF Head(entries).identifier # identifier THEN <<Head(entries)>> ELSE <<>>)
         \o FilterOutIdentifier(Tail(entries), identifier)

\* map.set(key, value)
MapSet(map, key, value) ==
  [k \in (DOMAIN map) \cup {key} |-> IF k = key THEN value ELSE map[k]]

\* map.delete(key)
MapDelete(map, key) == [k \in (DOMAIN map) \ {key} |-> map[k]]

\* Piano.keyDown: the new activeKeys. `order` numbers the presses (it is not a
\* field of ActiveKey; it records which entry was added later).
keyDown(keys, midi, color, identifier, order) ==
  IF ~isValidMidi(midi) THEN keys
  ELSE LET existing == IF midi \in DOMAIN keys THEN keys[midi] ELSE <<>> IN
       MapSet(keys, midi,
              Append(existing, [color |-> color, midi |-> midi,
                                identifier |-> identifier, order |-> order]))

\* a keyUp that drops every entry of the note
keyUp_DropsAll(keys, midi, identifier) ==
  IF ~isValidMidi(midi) THEN keys ELSE MapDelete(keys, midi)

\* Piano.keyUp: the new activeKeys
keyUp(keys, midi, identifier) ==
  IF ~isValidMidi(midi) THEN keys
  ELSE IF midi \notin DOMAIN keys THEN keys
  ELSE LET existingEntries == keys[midi] IN
       IF Falsy(identifier)
         THEN IF Len(existingEntries) = 1
                THEN MapDelete(keys, midi)
                ELSE MapSet(keys, midi, SubSeq(existingEntries, 1, Len(existingEntries) - 1))
         ELSE LET newActiveKeys == FilterOutIdentifier(existingEntries, identifier) IN
              IF Len(newActiveKeys) = 0
                THEN MapDelete(keys, midi)
                ELSE MapSet(keys, midi, newActiveKeys)

\* whether Piano.keyDown sets needsRedraw
keyDownRedraws(midi) == isValidMidi(midi)

\* whether Piano.keyUp sets needsRedraw
keyUpRedraws(keys, midi) == isValidMidi(midi) /\ midi \in DOMAIN keys

\* a createKeyGraphic that reads the oldest entry
keyGraphicColor_First(keys, midi) ==
  IF midi \in DOMAIN keys /\ Len(keys[midi]) > 0
    THEN keys[midi][1].color
    ELSE NoColor

\* Piano.createKeyGraphic: the color the key is drawn with
\* (activeKeys?.[activeKeys.length - 1]?.color)
keyGraphicColor(keys, midi) ==
  IF midi \in DOMAIN keys /\ Len(keys[midi]) > 0
    THEN keys[midi][Len(keys[midi])].color
    ELSE NoColor

----------------------------------------------------------------------------
(* PianoRoll: the note blocks and the pool of their graphics. A Graphics object is
   modelled by a number: the n-th object created by `new Graphics()` is n. *)

\* GraphicsPool's default maxPoolSize
maxPoolSize == 500

\* GraphicsPool.get: the object handed out, and the pool afterwards
poolGet(gp) ==
  IF Len(gp.pool) > 0
    THEN [graphics |-> gp.pool[Len(gp.pool)],
          pool |-> [gp EXCEPT !.pool = SubSeq(@, 1, Len(@) - 1)]]
    ELSE [graphics |-> gp.created + 1, pool |-> [gp EXCEPT !.created = @ + 1]]

\* GraphicsPool.return: the pool afterwards (an object that does not fit is destroyed)
poolReturn(gp, graphics) ==
  IF Len(gp.pool) < maxPoolSize THEN [gp EXCEPT !.pool = Append(@, graphics)] ELSE gp

\* PianoRoll.startNote: the new blocks
rollStartNote(blks, midi, color, identifier, graphics) ==
  LET existing == IF midi \in DOMAIN blks THEN blks[midi] ELSE <<>> IN
  MapSet(blks, midi,
         Append(existing, [isActive |-> TRUE, y |-> Num(0), height |-> Num(0),
                           graphics |-> graphics, midi |-> midi, color |-> color,
                           identifier |-> identifier]))

\* PianoRoll.endNote: the new blocks
rollEndNote(blks, midi, identifier) ==
  IF midi \notin DOMAIN blks \/ Len(blks[midi]) = 0 THEN blks
  ELSE IF ~Falsy(identifier)
    THEN [blks EXCEPT ![midi] =
            [i \in 1 .. Len(@) |->
               IF @[i].identifier = identifier THEN [@[i] EXCEPT !.isActive = FALSE] ELSE @[i]]]
    ELSE [blks EXCEPT ![midi] =
            [i \in 1 .. Len(@) |->
               IF @[i].isActive /\ Falsy(@[i].identifier)
                 THEN [@[i] EXCEPT !.isActive = FALSE] ELSE @[i]]]

\* ANIMATION_SPEED_FACTOR = 0.2
ANIMATION_SPEED_FACTOR == Rat(1, 5)

\* a pass that lets an ended block grow like an active one
moveBlock_GrowsEnded(block, distance) ==
  [block EXCEPT !.y = Minus(@, distance), !.height = Plus(@, distance)]

\* a pass that moves the active blocks only
moveBlock_HoldsEnded(block, distance) ==
  IF block.isActive
    THEN [block EXCEPT !.y = Minus(@, distance), !.height = Plus(@, distance)]
    ELSE block

\* renderMidiBlocks: block.y -= distance, and block.height += distance while active
moveBlock(block, distance) ==
  IF block.isActive
    THEN [block EXCEPT !.y = Minus(@, distance), !.height = Plus(@, distance)]
    ELSE [block EXCEPT !.y = Minus(@, distance)]

\* renderMidiBlocks: block.y + block.height + pianoRollHeight <= 0
isOffscreen(block, pianoRollHeight) ==
  LessEq(Plus(Plus(block.y, block.height), Num(pianoRollHeight)), Num(0))

\* renderMidiBlocks: blockDeletionBuffer, the list positions of the ended blocks that
\* are offscreen, in the order forEach visits them (positions count from 1 here)
deletionBuffer(list, pianoRollHeight) ==
  SelectSeq([i \in 1 .. Len(list) |-> i],
            LAMBDA i : ~list[i].isActive /\ isOffscreen(list[i], pianoRollHeight))

\* blocks.splice(blockIndex, 1)
splice(list, blockIndex) ==
  SubSeq(list, 1, blockIndex - 1) \o SubSeq(list, blockIndex + 1, Len(list))

\* a flush that walks the buffer forwards
RECURSIVE flushBuffer_Forwards(_, _, _, _)
flushBuffer_Forwards(list, buffer, i, gp) ==
  IF i = 0 THEN [list |-> list, deleted |-> FALSE, pool |-> gp]
  ELSE LET blockIndex == buffer[Len(buffer) - i + 1] IN
       IF blockIndex > Len(list) THEN flushBuffer_Forwards(list, buffer, i - 1, gp)
       ELSE IF Len(list) = 1
         THEN [list |-> list, deleted |-> TRUE,
               pool |-> poolReturn(gp, list[blockIndex].graphics)]
         ELSE flushBuffer_Forwards(splice(list, blockIndex), buffer, i - 1,
                                   poolReturn(gp, list[blockIndex].graphics))

\* renderMidiBlocks: the flush of the deletion buffer, from entry i down to the first.
\* `deleted` tells that the note's entry was deleted from the map.
RECURSIVE flushBuffer(_, _, _, _)
flushBuffer(list, buffer, i, gp) ==
  IF i = 0 THEN [list |-> list, deleted |-> FALSE, pool |-> gp]
  ELSE LET blockIndex == buffer[i] IN
       IF blockIndex > Len(list) THEN flushBuffer(list, buffer, i - 1, gp)
       ELSE IF Len(list) = 1
         THEN [list |-> list, deleted |-> TRUE,
               pool |-> poolReturn(gp, list[blockIndex].graphics)]
         ELSE With(splice(list, blockIndex), LAMBDA rest :
                With(poolReturn(gp, list[blockIndex].graphics), LAMBDA returned :
                  flushBuffer(rest, buffer, i - 1, returned)))

\* PianoRoll.renderMidiBlocks
renderMidiBlocks(list, deltaMS, pianoRollHeight, gp) ==
  With(Times(deltaMS, ANIMATION_SPEED_FACTOR), LAMBDA distance :
    With([i \in 1 .. Len(list) |-> moveBlock(list[i], distance)] \o <<>>, LAMBDA moved :
      With(deletionBuffer(moved, pianoRollHeight), LAMBDA blockDeletionBuffer :
        flushBuffer(moved, blockDeletionBuffer, Len(blockDeletionBuffer), gp))))

\* PianoRoll.render: renderMidiBlocks for each note of the map. The notes are visited
\* in ascending order here; the map's insertion order only decides in which order
\* the objects of different notes enter the pool.
RECURSIVE rollRender(_, _, _, _, _)
rollRender(blks, notes, deltaMS, pianoRollHeight, gp) ==
  IF notes = {} THEN [blocks |-> blks, pool |-> gp]
  ELSE With(CHOOSE n \in notes : \A m \in notes : n <= m, LAMBDA midi :
         With(renderMidiBlocks(blks[midi], deltaMS, pianoRollHeight, gp), LAMBDA done :
           With(IF done.deleted THEN MapDelete(blks, midi)
                                ELSE MapSet(blks, midi, done.list), LAMBDA rendered :
             rollRender(rendered, notes \ {midi}, deltaMS, pianoRollHeight, done.pool))))

----------------------------------------------------------------------------
(* Visualization: the facade's note calls and the ticker's Piano.render *)

\* the notes the model passes: the two ends of the valid range's outside, and two keys
NoteInputs == {MIDI_MIN - 1, 60, 61, MIDI_MAX + 1}
\* the facade's color argument: a color of the caller's, or none (the default is used)
ColorInputs == {"red", NoColor}
\* the colors Piano.keyDown is called with
PianoColors == {"red", "green"}
IdInputs == {NoId, "a", "b"}

\* the keys whose graphics the model draws
DrawnKeys == {n \in NoteInputs : isValidMidi(n)}

\* the number of entries held for a note
HeldCount(keys, midi) == IF midi \in DOMAIN keys THEN Len(keys[midi]) ELSE 0

\* a call of Piano.keyDown
PianoKeyDown(midi, color, identifier) ==
  /\ pressCount < MaxPresses
  /\ lastCall' = [op |-> "keyDown", midi |-> midi, identifier |-> identifier, removed |-> 0]
  /\ pressCount' = pressCount + 1
  /\ activeKeys' = keyDown(activeKeys, midi, color, identifier, pressCount + 1)
  /\ needsRedraw' = (needsRedraw \/ keyDownRedraws(midi))
  /\ UNCHANGED <<blocks, graphicsPool, drawnColor, keyVars, dimVars, gestureVars, wheelVars>>
  /\ UNCHANGED <<rangeVars, animVars, queryVars, touchVars>>

\* a call of Piano.keyUp
PianoKeyUp(midi, identifier) ==
  /\ lastCall' = [op |-> "keyUp", midi |-> midi, identifier |-> identifier,
                  removed |-> HeldCount(activeKeys, midi)
                                - HeldCount(keyUp(activeKeys, midi, identifier), midi)]
  /\ activeKeys' = keyUp(activeKeys, midi, identifier)
  /\ needsRedraw' = (needsRedraw \/ keyUpRedraws(activeKeys, midi))
  /\ UNCHANGED <<blocks, graphicsPool, pressCount, drawnColor, keyVars, dimVars, gestureVars,
                 wheelVars>>
  /\ UNCHANGED <<rangeVars, animVars, queryVars, touchVars>>

\* Piano.render, called by the ticker
Render ==
  /\ needsRedraw
  /\ drawnColor' = [n \in DrawnKeys |-> keyGraphicColor(activeKeys, n)]
  /\ needsRedraw' = FALSE
  /\ lastCall' = [op |-> "render", midi |-> NoNote, identifier |-> NoId, removed |-> 0]
  /\ UNCHANGED <<activeKeys, blocks, graphicsPool, pressCount, keyVars, dimVars, gestureVars,
                 wheelVars>>
  /\ UNCHANGED <<rangeVars, animVars, queryVars, touchVars>>

\* Visualization.startNote
StartNote(midi, colorArg, identifier) ==
  LET color == IF colorArg = NoColor THEN DEFAULT_COLOR ELSE colorArg IN
  /\ pressCount < MaxPresses
  /\ lastCall' = [op |-> "startNote", midi |-> midi, identifier |-> identifier, removed |-> 0]
  /\ pressCount' = pressCount + 1
  /\ blocks' = rollStartNote(blocks, midi, color, identifier, poolGet(graphicsPool).graphics)
  /\ graphicsPool' = poolGet(graphicsPool).pool
  /\ activeKeys' = keyDown(activeKeys, midi, color, identifier, pressCount + 1)
  /\ needsRedraw' = (needsRedraw \/ keyDownRedraws(midi))
  /\ UNCHANGED <<drawnColor, keyVars, dimVars, gestureVars, wheelVars>>
  /\ UNCHANGED <<rangeVars, animVars, queryVars, touchVars>>

\* Visualization.endNote
EndNote(midi, identifier) ==
  /\ lastCall' = [op |-> "endNote", midi |-> midi, identifier |-> identifier,
                  removed |-> HeldCount(activeKeys, midi)
                                - HeldCount(keyUp(activeKeys, midi, identifier), midi)]
  /\ blocks' = rollEndNote(blocks, midi, identifier)
  /\ activeKeys' = keyUp(activeKeys, midi, identifier)
  /\ needsRedraw' = (needsRedraw \/ keyUpRedraws(activeKeys, midi))
  /\ UNCHANGED <<graphicsPool, pressCount, drawnColor, keyVars, dimVars, gestureVars, wheelVars>>
  /\ UNCHANGED <<rangeVars, animVars, queryVars, touchVars>>

\* PianoRoll.render(ticker), called by the ticker. A block is held no longer than
\* MaxBlockHeight lets it grow.
RollRender(deltaMS) ==
  /\ \A midi \in DOMAIN blocks : \A i \in 1 .. Len(blocks[midi]) :
       blocks[midi][i].isActive => Less(blocks[midi][i].height, Num(MaxBlockHeight))
  /\ \E rendered \in {rollRender(blocks, DOMAIN blocks, deltaMS, getPianoY, graphicsPool)} :
       /\ blocks' = rendered.blocks
       /\ graphicsPool' = rendered.pool
  /\ lastCall' = [op |-> "rollRender", midi |-> NoNote, identifier |-> NoId, removed |-> 0,
                  deltaMS |-> deltaMS, blocks |-> blocks, graphicsPool |-> graphicsPool]
  /\ UNCHANGED <<activeKeys, needsRedraw, drawnColor, pressCount, keyVars, dimVars,
                 gestureVars, wheelVars>>
  /\ UNCHANGED <<rangeVars, animVars, queryVars, touchVars>>

InitTracker ==
  /\ activeKeys = <<>>
  /\ needsRedraw = FALSE   \* the constructor has rendered once
  /\ drawnColor = [n \in DrawnKeys |-> NoColor]
  /\ blocks = <<>>
  /\ graphicsPool = [pool |-> <<>>, created |-> 0]
  /\ pressCount = 0
  /\ lastCall = [op |-> "new", midi |-> NoNote, identifier |-> NoId, removed |-> 0]

InitNotes ==
  /\ InitTracker
  /\ InitController
  /\ width \in Widths
  /\ height \in Heights
  /\ pianoHeight = DEFAULT_PIANO_HEIGHT
  /\ InitGesture
  /\ InitWheel
  /\ InitRange
  /\ InitAnimator
  /\ InitQueries

\* the keyboard alone: calls of Piano.keyDown / Piano.keyUp and the ticker's render
NextTracker ==
  \/ \E midi \in NoteInputs, color \in PianoColors, id \in IdInputs :
       PianoKeyDown(midi, color, id)
  \/ \E midi \in NoteInputs, id \in IdInputs : PianoKeyUp(midi, id)
  \/ Render

SpecTracker == InitNotes /\ [][NextTracker]_vars

\* the facade: startNote / endNote on the note roll and the keyboard
NextNotes ==
  \/ \E midi \in NoteInputs, color \in ColorInputs, id \in IdInputs : StartNote(midi, color, id)
  \/ \E midi \in NoteInputs, id \in IdInputs : EndNote(midi, id)

SpecNotes == InitNotes /\ [][NextNotes]_vars

\* the ticker's deltaMS: none, a pass of 200 px, and one longer than the roll is high
RollDeltaMS == {Num(0), Num(1000), Num(2000)}

\* the notes and their identifiers: one key played anonymously and by one source,
\* and another key played anonymously
RollNotes == {<<60, NoId>>, <<60, "a">>, <<61, NoId>>}

\* a render pass with a positive deltaMS
RollTick == \E deltaMS \in RollDeltaMS \ {Num(0)} : RollRender(deltaMS)
\* a render pass within the same millisecond as the last
RollTickZero == RollRender(Num(0))

\* the facade's notes and the ticker's render passes of the note roll
NextRoll ==
  \/ \E note \in RollNotes : StartNote(note[1], NoColor, note[2])
  \/ \E note \in RollNotes : EndNote(note[1], note[2])
  \/ RollTick
  \/ RollTickZero

SpecRoll == InitNotes /\ [][NextRoll]_vars

\* one key's anonymous notes under a ticker that keeps running
NextRollTicking ==
  \/ StartNote(60, NoColor, NoId)
  \/ EndNote(60, NoId)
  \/ RollTick

SpecRollTicking == InitNotes /\ [][NextRollTicking]_vars /\ WF_vars(RollTick)

----------------------------------------------------------------------------
(* The key input controller's specification *)

\* pointer positions: one on each side of every edge isEventOutsidePiano tests
ClientXs == {-1, 0, width, width + 1}
ClientYs == {getPianoY - 1, getPianoY, height, height + 1}
\* the positions of the region-wide moves: each edge of the strip crossed with the
\* other coordinate inside, and the corner where both coordinates are on their edge
ClientPoints ==
  {<<cx, getPianoY>> : cx \in ClientXs} \cup {<<0, cy>> : cy \in ClientYs}
    \cup {<<width, height>>}

TouchEndOps == {"touchend", "touchcancel"}
GlobalTouchEndOps == {"globaltouchend", "globaltouchcancel"}
TouchReleaseOps == {"touchend+globaltouchend", "touchcancel+globaltouchcancel"}

InitKeys ==
  /\ InitController
  /\ InitTracker
  /\ width \in Widths
  /\ height \in Heights
  /\ pianoHeight = DEFAULT_PIANO_HEIGHT
  /\ InitGesture
  /\ InitWheel
  /\ InitRange
  /\ InitAnimator
  /\ InitQueries

NextKeys ==
  \/ \E midi \in KeyNotes : MouseDownKey(midi)
  \/ \E midi \in KeyNotes : MouseUpKey(midi)
  \/ \E midi \in KeyNotes : MouseEnterKey(midi)
  \/ \E midi \in KeyNotes, p \in Pointers : TouchStartKey(midi, p)
  \/ \E midi \in KeyNotes, p \in Pointers : TouchMoveKey(midi, p)
  \/ \E midi \in KeyNotes, p \in Pointers, op \in TouchEndOps : TouchEndKey(midi, p, op)
  \/ \E p \in Pointers, op \in GlobalTouchEndOps : GlobalTouchEnd(p, op)
  \/ \E midi \in KeyNotes, p \in Pointers, op \in TouchReleaseOps : TouchReleaseBoth(midi, p, op)
  \/ \E at \in ClientPoints : GlobalMouseMove(at[1], at[2])
  \/ \E p \in Pointers, at \in ClientPoints : GlobalTouchMove(p, at[1], at[2])

SpecKeys == InitKeys /\ [][NextKeys]_vars

----------------------------------------------------------------------------
(* VisualizationController: mouse drag, pinch gesture, gesture completion;    *)
(* Visualization: the ticker's callback                                       *)

\* gestures (mouse presses and pinches) begun in one behaviour
MaxGestures == 1

\* pointer positions of the mouse: a drag of 57, of 143 or of 200 pixels either way
GestureClientXs == {100, 157, 300}
\* one position on the note roll and one on the keyboard strip
GestureClientYs == {getPianoY - 1, getPianoY}
\* e.scale of gesturechange: a zoom out that leaves a fractional key count
GestureScales == {Rat(9, 10)}
\* the ticker's frame time, as what it leaves of the remaining distance: deltaMS is
\* such that the raw easing step deltaMS * |deltaX|^1.5 / 600 is |deltaX| - short
EasingShortfalls == {Num(0), Rat(1, 2)}

CompletionOps == {"mouseup", "mouseleave", "gestureend"}

\* the position taken from the pointer alone, the press position forgotten
updatePointerX_IgnoresOrigin(w, wf, initialClientX, currentClientX, initialContainerX) ==
  getClampedX(w, wf, Plus(initialContainerX, Num(currentClientX)), TRUE)

\* VisualizationController.updatePointerX: the position it reports
updatePointerX(w, wf, initialClientX, currentClientX, initialContainerX) ==
  LET deltaX == currentClientX - initialClientX
  IN getClampedX(w, wf, Plus(initialContainerX, Num(deltaX)), TRUE)

\* the same steps with the pan quantized before the zoom is applied
completeGesture_PanBeforeZoom(w, wf, px) ==
  LET quantizedWidthFactor == getQuantizedWidthFactor(w, wf)
      quantizedX == getQuantizedX(wf, px)
      applied == IF quantizedWidthFactor # wf
                 THEN setWidthFactor(w, wf, px, quantizedWidthFactor)
                 ELSE [widthFactor |-> wf, x |-> px]
  IN [widthFactor |-> applied.widthFactor, x |-> applied.x,
      containerTargetX |-> quantizedX, widthFactorTarget |-> quantizedWidthFactor]

\* VisualizationController.completeGesture() with no finalPosition: the layout
\* afterwards and the two targets it pushes
completeGesture(w, wf, px) ==
  LET quantizedWidthFactor == getQuantizedWidthFactor(w, wf)
      applied == IF quantizedWidthFactor # wf
                 THEN setWidthFactor(w, wf, px, quantizedWidthFactor)
                 ELSE [widthFactor |-> wf, x |-> px]
      quantizedX == getQuantizedX(applied.widthFactor, applied.x)
  IN [widthFactor |-> applied.widthFactor, x |-> applied.x,
      containerTargetX |-> quantizedX, widthFactorTarget |-> quantizedWidthFactor]

\* Visualization.getEasingX, at a frame time that makes the raw step |deltaX| - short
getEasingX(deltaX, short) == MathMax(Minus(MathAbs(deltaX), short), Num(1))

\* the listeners are registered with the abort signal: none runs once it is aborted
Listening == ~disposed

Observe(op) ==
  gestureCall' = [op |-> op, widthFactor |-> widthFactor, x |-> layoutX,
                  reported |-> reported]

onMouseDown(cx, cy) ==
  /\ gestureCount < MaxGestures
  /\ gestureCount' = gestureCount + 1
  /\ Observe("mousedown")
  /\ Listening
  /\ mouseEvent' = [clientX |-> cx, clientY |-> cy]
  /\ called' = 0
  /\ IF getSection(cy) = "PIANO"
     THEN UNCHANGED <<mouseContext, reported>>
     ELSE /\ mouseContext' = [isDown |-> TRUE, clientX |-> cx, containerX |-> layoutX]
          /\ reported' = NoReport
  /\ UNCHANGED <<widthFactor, layoutX, pinchContext, renderContainerX, containerTargetX,
                 widthFactorLive, widthFactorTarget, keyVars, dimVars, noteVars, wheelVars>>
  /\ UNCHANGED <<rangeVars, animVars, queryVars, touchVars>>

onMouseMove(cx) ==
  /\ Observe("mousemove")
  /\ Listening
  /\ mouseEvent' = [mouseEvent EXCEPT !.clientX = cx]
  /\ called' = IF mouseContext.isDown THEN 2 ELSE 0
  /\ IF ~mouseContext.isDown
     THEN UNCHANGED <<renderContainerX, containerTargetX, reported>>
     ELSE LET px == updatePointerX(width, widthFactor, mouseContext.clientX, cx,
                                   mouseContext.containerX)
          IN /\ renderContainerX' = px      \* onContainerXChange(x)
             /\ containerTargetX' = px      \* onContainerTargetXChange(x)
             /\ reported' = px
  /\ UNCHANGED <<widthFactor, layoutX, mouseContext, pinchContext, widthFactorLive,
                 widthFactorTarget, gestureCount, keyVars, dimVars, noteVars, wheelVars>>
  /\ UNCHANGED <<rangeVars, animVars, queryVars, touchVars>>

\* onMouseUp and onMouseLeave: resetMouseContext
onMouseUp(op) ==
  LET done == completeGesture(width, widthFactor, layoutX)
  IN /\ Observe(op)
     /\ Listening
     /\ mouseContext' = [isDown |-> FALSE, clientX |-> 0, containerX |-> Num(0)]
     /\ widthFactor' = done.widthFactor
     /\ layoutX' = done.x
     /\ containerTargetX' = done.containerTargetX
     /\ widthFactorTarget' = done.widthFactorTarget
     /\ reported' = NoReport
     /\ called' = 2
     /\ UNCHANGED <<pinchContext, renderContainerX, widthFactorLive, gestureCount, mouseEvent,
                    keyVars, dimVars, noteVars, wheelVars>>
     /\ RangeFollows

onGestureStart ==
  /\ gestureCount < MaxGestures
  /\ gestureCount' = gestureCount + 1
  /\ Observe("gesturestart")
  /\ Listening
  /\ pinchContext' = widthFactor
  /\ called' = 0
  /\ UNCHANGED <<mouseEvent, widthFactor, layoutX, mouseContext, renderContainerX, containerTargetX,
                 widthFactorLive, widthFactorTarget, reported, keyVars, dimVars, noteVars, wheelVars>>
  /\ UNCHANGED <<rangeVars, animVars, queryVars, touchVars>>

onGestureChange(scale) ==
  /\ Observe("gesturechange")
  /\ Listening
  /\ called' = IF pinchContext = NoPinch THEN 0 ELSE 1
  /\ IF pinchContext = NoPinch
     THEN UNCHANGED <<widthFactor, layoutX, widthFactorLive>>
     ELSE LET newWidthFactor == getClampedWidthFactor(width, Times(pinchContext, scale))
              applied == setWidthFactor(width, widthFactor, layoutX, newWidthFactor)
          IN /\ widthFactor' = applied.widthFactor
             /\ layoutX' = applied.x
             /\ widthFactorLive' = newWidthFactor
  /\ UNCHANGED <<mouseContext, pinchContext, renderContainerX, containerTargetX, mouseEvent,
                 widthFactorTarget, reported, gestureCount, keyVars, dimVars, noteVars, wheelVars>>
  /\ RangeFollows

onGestureEnd ==
  LET done == completeGesture(width, widthFactor, layoutX)
  IN /\ Observe("gestureend")
     /\ Listening
     /\ widthFactor' = done.widthFactor
     /\ layoutX' = done.x
     /\ containerTargetX' = done.containerTargetX
     /\ widthFactorTarget' = done.widthFactorTarget
     /\ pinchContext' = NoPinch
     /\ called' = 2
     /\ UNCHANGED <<mouseEvent, mouseContext, renderContainerX, widthFactorLive, reported,
                    gestureCount, keyVars, dimVars, noteVars, wheelVars>>
     /\ RangeFollows

\* the ticker's callback: piano.render() and animateContainerX(delta)
Tick(short) ==
  LET deltaX == Minus(containerTargetX, renderContainerX)
  IN /\ Observe("tick")
     /\ called' = 0
     /\ drawnColor' = IF needsRedraw
                      THEN [n \in DrawnKeys |-> keyGraphicColor(activeKeys, n)]
                      ELSE drawnColor
     /\ needsRedraw' = FALSE
     /\ IF deltaX = Num(0)
        THEN /\ layoutX' = getClampedX(width, widthFactor, renderContainerX, FALSE)
             /\ UNCHANGED renderContainerX
        ELSE /\ UNCHANGED layoutX
             /\ renderContainerX' =
                  IF LessEq(Num(1), deltaX)
                    THEN Plus(renderContainerX, getEasingX(deltaX, short))
                  ELSE IF LessEq(deltaX, Num(-1))
                    THEN Minus(renderContainerX, getEasingX(deltaX, short))
                  ELSE containerTargetX
     /\ UNCHANGED <<widthFactor, mouseContext, pinchContext, containerTargetX, mouseEvent,
                    widthFactorLive, widthFactorTarget, reported, gestureCount,
                    activeKeys, blocks, graphicsPool, pressCount, lastCall, keyVars, dimVars,
                    wheelVars>>
     /\ UNCHANGED <<rangeVars, animVars, queryVars, touchVars>>

NextGesture ==
  \/ \E cx \in GestureClientXs, cy \in GestureClientYs : onMouseDown(cx, cy)
  \/ \E cx \in GestureClientXs : onMouseMove(cx)
  \/ \E op \in {"mouseup", "mouseleave"} : onMouseUp(op)
  \/ onGestureStart
  \/ \E scale \in GestureScales : onGestureChange(scale)
  \/ onGestureEnd
  \/ \E short \in EasingShortfalls : Tick(short)

SpecGesture == InitNotes /\ [][NextGesture]_vars

----------------------------------------------------------------------------
(* Touch contacts on the roll: a pan with one contact, a pinch with two. The contacts
   are at one height, so Math.hypot of a pair is the distance of their clientX, and no
   two contacts are at the same place. *)

\* touchstart events in one behaviour
MaxTouchStarts == 3
\* Touch.identifier of the contacts
TouchIds == {0, 1, 2}
\* clientX of the contacts
TouchXs == {100, 300, 500}
\* clientY of the contacts
TouchY == getPianoY - 1

\* a value as a Set compares it (SameValueZero): a number and a string are never equal
JsNumber(n) == <<"number", n>>
JsString(str) == <<"string", str>>
\* the property key of touchContext[touch.identifier], and a key of Object.keys
KeyOf(identifier) == ToString(identifier)

\* the places of the contacts
TouchPlaces(list) == {list[id] : id \in DOMAIN list}

\* VisualizationController.detectTouchGesture
detectTouchGesture(touchCount) ==
  IF touchCount = 1 THEN "pan" ELSE IF touchCount = 2 THEN "pinch" ELSE "none"

\* VisualizationController.calculatePinchDistance (called with two contacts)
calculatePinchDistance(list) ==
  IF Cardinality(DOMAIN list) < 2 THEN Num(0)
  ELSE LET first == CHOOSE id \in DOMAIN list : \A other \in DOMAIN list : id <= other
           second == CHOOSE id \in DOMAIN list \ {first} :
                       \A other \in DOMAIN list \ {first} : id <= other
       IN MathAbs(Num(list[first] - list[second]))

\* VisualizationController.calculatePinchCenter: its x (called with two contacts)
calculatePinchCenter(list) ==
  IF Cardinality(DOMAIN list) < 2 THEN Num(0)
  ELSE LET first == CHOOSE id \in DOMAIN list : \A other \in DOMAIN list : id <= other
           second == CHOOSE id \in DOMAIN list \ {first} :
                       \A other \in DOMAIN list \ {first} : id <= other
       IN Rat(list[first] + list[second], 2)

\* onTouchEnd: the entries of touchContext it keeps, those whose key the Set of the
\* remaining identifiers has
keptEntries(context, list) ==
  LET touchIds == {JsNumber(id) : id \in DOMAIN list}
  IN [touchId \in {k \in DOMAIN context : JsString(k) \in touchIds} |-> context[touchId]]

\* Layout.range follows a zoom made by a touch handler
TouchRangeFollows ==
  /\ rangeVisibleKeys' = IF StrictEquals(widthFactor', widthFactor)
                         THEN rangeVisibleKeys
                         ELSE Over(Rat(width, NATURAL_KEY_WIDTH), widthFactor')
  /\ UNCHANGED <<rangeCenterMidi, layoutCall, layoutCalls, layoutWas, warnings>>
  /\ UNCHANGED <<animVars, queryVars>>

onTouchStart(id, cx) ==
  LET list == MapSet(touches, id, cx)
      gestureType == detectTouchGesture(Cardinality(DOMAIN list))
  IN /\ gestureCount < MaxTouchStarts
     /\ gestureCount' = gestureCount + 1
     /\ id \notin DOMAIN touches
     /\ cx \notin TouchPlaces(touches)
     /\ Observe("touchstart")
     /\ Listening
     /\ touches' = list
     /\ called' = 0
     /\ IF getSection(TouchY) = "PIANO"
        THEN UNCHANGED <<touchContext, pinchContext, pinchOrigin>>
        ELSE /\ touchContext' =
                  [k \in DOMAIN touchContext \cup {KeyOf(i) : i \in DOMAIN list} |->
                     IF \E i \in DOMAIN list : KeyOf(i) = k
                       THEN [clientX |-> list[CHOOSE i \in DOMAIN list : KeyOf(i) = k],
                             containerX |-> layoutX]
                       ELSE touchContext[k]]
             /\ IF gestureType = "pinch" /\ Cardinality(DOMAIN list) = 2
                THEN /\ pinchContext' = widthFactor
                     /\ pinchOrigin' = [initialDistance |-> calculatePinchDistance(list),
                                        initialCenter |-> calculatePinchCenter(list),
                                        pair |-> DOMAIN list]
                ELSE UNCHANGED <<pinchContext, pinchOrigin>>
     /\ UNCHANGED <<widthFactor, layoutX, mouseContext, renderContainerX, containerTargetX,
                    widthFactorLive, widthFactorTarget, reported, mouseEvent,
                    keyVars, dimVars, noteVars, wheelVars>>
     /\ UNCHANGED <<rangeVars, animVars, queryVars>>

\* VisualizationController.handlePinchMove
handlePinchMove(list) ==
  LET currentDistance == calculatePinchDistance(list)
      currentCenter == calculatePinchCenter(list)
      distanceRatio == Over(currentDistance, pinchOrigin.initialDistance)
      newWidthFactor == getClampedWidthFactor(width, Times(pinchContext, distanceRatio))
      applied == setWidthFactor(width, widthFactor, layoutX, newWidthFactor)
      centerDeltaX == Minus(currentCenter, pinchOrigin.initialCenter)
      newX == getClampedX(width, applied.widthFactor, Plus(applied.x, centerDeltaX), TRUE)
  IN /\ widthFactor' = applied.widthFactor
     /\ layoutX' = applied.x
     /\ widthFactorLive' = newWidthFactor
     /\ IF Less(Num(5), MathAbs(centerDeltaX))
        THEN /\ renderContainerX' = newX      \* onContainerXChange(newX)
             /\ containerTargetX' = newX      \* onContainerTargetXChange(newX)
             /\ reported' = newX
             /\ pinchOrigin' = [pinchOrigin EXCEPT !.initialCenter = currentCenter]
             /\ called' = 3
        ELSE /\ UNCHANGED <<renderContainerX, containerTargetX, reported, pinchOrigin>>
             /\ called' = 1

\* VisualizationController.handlePanMove
handlePanMove(id, cx) ==
  /\ IF KeyOf(id) \notin DOMAIN touchContext
     THEN /\ UNCHANGED <<renderContainerX, containerTargetX, reported>>
          /\ called' = 0
     ELSE LET touchEntry == touchContext[KeyOf(id)]
              px == updatePointerX(width, widthFactor, touchEntry.clientX, cx,
                                   touchEntry.containerX)
          IN /\ renderContainerX' = px      \* onContainerXChange(x)
             /\ containerTargetX' = px      \* onContainerTargetXChange(x)
             /\ reported' = px
             /\ called' = 2
  /\ UNCHANGED <<widthFactor, layoutX, widthFactorLive, pinchOrigin>>

onTouchMove(id, cx) ==
  LET list == [touches EXCEPT ![id] = cx]
  IN /\ id \in DOMAIN touches
     /\ cx \notin TouchPlaces(touches)
     /\ Observe("touchmove")
     /\ Listening
     /\ touches' = list
     /\ IF Cardinality(DOMAIN list) = 2 /\ pinchContext # NoPinch
        THEN handlePinchMove(list)
        ELSE handlePanMove(id, cx)
     /\ UNCHANGED <<mouseContext, pinchContext, touchContext, widthFactorTarget, gestureCount,
                    mouseEvent, keyVars, dimVars, noteVars, wheelVars>>
     /\ TouchRangeFollows

\* onTouchEnd, for touchend and touchcancel
onTouchEnd(id) ==
  LET list == MapDelete(touches, id)
      size == Cardinality(DOMAIN list)
      done == completeGesture(width, widthFactor, layoutX)
  IN /\ id \in DOMAIN touches
     /\ Observe("touchend")
     /\ Listening
     /\ touches' = list
     /\ IF size = 0
        THEN /\ widthFactor' = done.widthFactor
             /\ layoutX' = done.x
             /\ containerTargetX' = done.containerTargetX
             /\ widthFactorTarget' = done.widthFactorTarget
             /\ reported' = NoReport
             /\ called' = 2
        ELSE /\ UNCHANGED <<widthFactor, layoutX, containerTargetX, widthFactorTarget, reported>>
             /\ called' = 0
     /\ pinchContext' = IF size < 2 THEN NoPinch ELSE pinchContext
     /\ pinchOrigin' = IF size < 2 THEN NoOrigin ELSE pinchOrigin
     /\ touchContext' = keptEntries(touchContext, list)
     /\ UNCHANGED <<mouseContext, renderContainerX, widthFactorLive, gestureCount, mouseEvent,
                    keyVars, dimVars, noteVars, wheelVars>>
     /\ TouchRangeFollows

NextTouch ==
  \/ \E id \in TouchIds, cx \in TouchXs : onTouchStart(id, cx)
  \/ \E id \in TouchIds, cx \in TouchXs : onTouchMove(id, cx)
  \/ \E id \in TouchIds : onTouchEnd(id)

SpecTouch == InitNotes /\ [][NextTouch]_vars

----------------------------------------------------------------------------
(* Wheel input, its debounced completion, dispose; a debounced function on its own *)

\* wheel events, and calls of the stand-alone debounced function, in one behaviour
MaxWheels == 2
MaxCalls == 2
\* the clock stops here
MaxTime == 70
\* the clock's granularity, in milliseconds
TimeStep == 10
\* the delay the stand-alone debounced function is made with
TestWait == 20

\* debounce(this.onWheelSettled.bind(this), 30)
WHEEL_SETTLE_MS == 30

Wait(fn) == IF fn = "onWheelSettled" THEN WHEEL_SETTLE_MS ELSE TestWait

\* e.deltaX and e.deltaY of a wheel event
WheelDeltas == {<<40, 0>>, <<0, 100>>, <<40, 100>>}
\* the wheel events of a burst: horizontal scrolling over the note roll
BurstDeltas == {<<40, 0>>}
\* the arguments the stand-alone debounced function is called with
CallArgs == {<<"first">>, <<"second">>}

\* no timer that is due has yet to run
NoTimerDue == \A t \in pendingTimers : now < t.due

\* a call of the debounced function fn with args
CallDebounced(fn, args) ==
  /\ timerCount' = timerCount + 1
  /\ timeoutId' = [timeoutId EXCEPT ![fn] = timerCount + 1]
  /\ pendingTimers' = debounced(pendingTimers, timeoutId[fn], fn, timerCount + 1, now,
                                Wait(fn), args)
  /\ callLog' = [callLog EXCEPT ![fn] = Append(@, [at |-> now, args |-> args])]

\* VisualizationController.onWheel
onWheel(deltaX, deltaY, cy) ==
  LET panned == deltaX # 0
      zoomed == deltaY # 0 /\ getSection(cy) = "PIANO_ROLL"
      px == getClampedX(width, widthFactor, Minus(layoutX, Num(deltaX)), TRUE)
      newWidthFactor == getClampedWidthFactor(width,
                          Minus(widthFactor, Times(Num(deltaY), Rat(1, 1000))))
      applied == setWidthFactor(width, widthFactor, layoutX, newWidthFactor)
  IN /\ Listening
     /\ NoTimerDue
     /\ Len(callLog["onWheelSettled"]) < MaxWheels
     /\ Observe("wheel")
     /\ IF zoomed
        THEN /\ widthFactor' = applied.widthFactor
             /\ layoutX' = applied.x
             /\ renderContainerX' = applied.x
             /\ containerTargetX' = applied.x
             /\ reported' = applied.x
             /\ widthFactorLive' = newWidthFactor
             /\ widthFactorTarget' = newWidthFactor
        ELSE /\ UNCHANGED <<widthFactor, layoutX, widthFactorLive, widthFactorTarget>>
             /\ IF panned
                THEN /\ renderContainerX' = px
                     /\ containerTargetX' = px
                     /\ reported' = px
                ELSE UNCHANGED <<renderContainerX, containerTargetX, reported>>
     /\ called' = (IF panned THEN 2 ELSE 0) + (IF zoomed THEN 4 ELSE 0)
     /\ CallDebounced("onWheelSettled", <<>>)
     /\ UNCHANGED <<mouseContext, pinchContext, gestureCount, mouseEvent, disposed, now,
                    callbackLog,
                    keyVars, dimVars, noteVars>>
     /\ RangeFollows

\* the timer of onWheelSettled runs: VisualizationController.onWheelSettled
WheelSettled ==
  \E t \in pendingTimers :
    LET done == completeGesture(width, widthFactor, layoutX)
    IN /\ t.fn = "onWheelSettled"
       /\ t.due <= now
       /\ Observe("wheelsettled")
       /\ pendingTimers' = pendingTimers \ {t}
       /\ callbackLog' = [callbackLog EXCEPT ![t.fn] = Append(@, [at |-> now, args |-> t.args, calls |-> Len(callLog[t.fn])])]
       /\ widthFactor' = done.widthFactor
       /\ layoutX' = done.x
       /\ containerTargetX' = done.containerTargetX
       /\ widthFactorTarget' = done.widthFactorTarget
       /\ called' = 2
       /\ UNCHANGED <<mouseContext, pinchContext, renderContainerX, widthFactorLive, reported,
                      mouseEvent,
                      gestureCount, disposed, now, timeoutId, timerCount, callLog,
                      keyVars, dimVars, noteVars>>
       /\ RangeFollows

\* VisualizationController.dispose
Dispose ==
  /\ ~disposed
  /\ NoTimerDue
  /\ Observe("dispose")
  /\ disposed' = TRUE
  /\ called' = 0
  /\ UNCHANGED <<widthFactor, layoutX, mouseContext, pinchContext, renderContainerX,
                 containerTargetX, widthFactorLive, widthFactorTarget, reported, gestureCount,
                 mouseEvent, now, timeoutId, pendingTimers, timerCount, callLog, callbackLog,
                 keyVars, dimVars, noteVars>>
  /\ UNCHANGED <<rangeVars, animVars, queryVars, touchVars>>

\* a call of the stand-alone debounced function
DebouncedFnCall(args) ==
  /\ NoTimerDue
  /\ Len(callLog["debouncedFn"]) < MaxCalls
  /\ CallDebounced("debouncedFn", args)
  /\ UNCHANGED <<disposed, now, callbackLog, gestureVars, keyVars, dimVars, noteVars>>
  /\ UNCHANGED <<rangeVars, animVars, queryVars, touchVars>>

\* the timer of the stand-alone debounced function runs its callback
DebouncedFnCallback ==
  \E t \in pendingTimers :
    /\ t.fn = "debouncedFn"
    /\ t.due <= now
    /\ pendingTimers' = pendingTimers \ {t}
    /\ callbackLog' = [callbackLog EXCEPT ![t.fn] = Append(@, [at |-> now, args |-> t.args, calls |-> Len(callLog[t.fn])])]
    /\ UNCHANGED <<disposed, now, timeoutId, timerCount, callLog, gestureVars,
                   keyVars, dimVars, noteVars>>
    /\ UNCHANGED <<rangeVars, animVars, queryVars, touchVars>>

\* time passes; a timer that is due runs before anything later happens
Advance ==
  /\ NoTimerDue
  /\ now + TimeStep <= MaxTime
  /\ now' = now + TimeStep
  /\ UNCHANGED <<disposed, timeoutId, pendingTimers, timerCount, callLog, callbackLog,
                 gestureVars, keyVars, dimVars, noteVars>>
  /\ UNCHANGED <<rangeVars, animVars, queryVars, touchVars>>

NextWheel ==
  \/ \E d \in WheelDeltas, cy \in GestureClientYs : onWheel(d[1], d[2], cy)
  \/ WheelSettled
  \/ Dispose
  \/ Advance

SpecWheel == InitNotes /\ [][NextWheel]_vars

NextDebounce ==
  \/ \E args \in CallArgs : DebouncedFnCall(args)
  \/ DebouncedFnCallback
  \/ \E d \in BurstDeltas : onWheel(d[1], d[2], getPianoY - 1)
  \/ WheelSettled
  \/ Advance

SpecDebounce == InitNotes /\ [][NextDebounce]_vars

----------------------------------------------------------------------------
(* Layout on its own: the calls a host makes on it *)

\* calls made on Layout in one behaviour
MaxLayoutCalls == 3

\* container widths: one in each breakpoint tier
LayoutWidths == {600, 800, 1300}
LayoutHeights == {500, 600}
\* pan requests: beyond either end, and inside
XInputs == {Num(-4000), Num(0), Num(357), Num(4000)}
\* visible-key counts passed to setVisibleKeys
VisibleKeyInputs == {Num(4), Num(16), Num(40)}
\* width factors passed to setWidthFactor: zero, negative, tiny, ordinary, huge, and
\* the 0 / 0 of a pinch whose two touches coincide
WidthFactorInputs == {Num(0), Num(-1), Rat(1, 1000), Rat(3, 4), Num(1000), NaN}
\* center notes: the ends of the keyboard, one beyond each, and two inside
CenterInputs == {MIDI_MIN - 1, MIDI_MIN, 60, 72, MIDI_MAX, MIDI_MAX + 1}
\* setRange arguments: rejected ones, the ends of the accepted window, ordinary ones
RangeInputs == {<<MIDI_MIN - 1, 8>>, <<MIDI_MAX + 1, 8>>, <<60, 3>>, <<60, 89>>,
                <<60, 4>>, <<60, 88>>, <<72, 10>>, <<60, 12>>}

\* Layout.centerMidiToX
centerMidiToX(w, wf, midi) ==
  LET noteX == CHROMA_X_POSITIONS[PitchChroma(midi) + 1] + PitchOctave(midi) * OCTAVE_WIDTH
      scaledNoteX == Times(Num(noteX - DEFAULT_X_OFFSET), wf)
      screenCenterX == Rat(w, 2)
  IN Minus(scaledNoteX, screenCenterX)

\* Layout.setVisibleKeys: the width factor it stores
setVisibleKeys(w, count) == Over(Rat(w, NATURAL_KEY_WIDTH), count)

\* the check of the center note alone
rangeAccepted_CenterOnly(midi, count) == ~(midi < 21 \/ midi > 108)

\* Layout.setCenterMidi and Layout.setRange: the checks of their arguments
centerMidiAccepted(midi) == ~(midi < 21 \/ midi > 108)
rangeAccepted(midi, count) == centerMidiAccepted(midi) /\ ~(count < 4 \/ count > 88)

\* the fields of the other components, which a call on Layout leaves alone
LayoutAlone ==
  UNCHANGED <<keyVars, noteVars, wheelVars, mouseContext, pinchContext, renderContainerX,
              containerTargetX, widthFactorLive, widthFactorTarget, reported, gestureCount,
              gestureCall, mouseEvent, called, animVars, queryVars, touchVars>>

LayoutCalled(op, a, b) ==
  /\ LayoutAlone
  /\ layoutCalls < MaxLayoutCalls
  /\ layoutCalls' = layoutCalls + 1
  /\ layoutCall' = [op |-> op, a |-> a, b |-> b]
  /\ layoutWas' = LayoutFields

SetWidth(w) ==
  LET lastRangeFromWidth == getBreakpointRange(width)
      newRangeFromWidth == getBreakpointRange(w)
      targetRange == IF lastRangeFromWidth = newRangeFromWidth
                     THEN rangeVisibleKeys
                     ELSE Num(newRangeFromWidth)
  IN /\ LayoutCalled("setWidth", Num(w), Num(0))
     /\ width' = w
     /\ rangeVisibleKeys' = targetRange
     /\ widthFactor' = setVisibleKeys(w, targetRange)
     /\ UNCHANGED <<height, pianoHeight, layoutX, rangeCenterMidi, warnings>>

SetHeight(h) ==
  /\ LayoutCalled("setHeight", Num(h), Num(0))
  /\ height' = h
  /\ UNCHANGED <<width, pianoHeight, widthFactor, layoutX, rangeCenterMidi, rangeVisibleKeys,
                 warnings>>

SetX(px) ==
  /\ LayoutCalled("setX", px, Num(0))
  /\ layoutX' = getClampedX(width, widthFactor, px, FALSE)
  /\ UNCHANGED <<dimVars, widthFactor, rangeCenterMidi, rangeVisibleKeys, warnings>>

SetVisibleKeys(count) ==
  /\ LayoutCalled("setVisibleKeys", count, Num(0))
  /\ rangeVisibleKeys' = count
  /\ widthFactor' = setVisibleKeys(width, count)
  /\ UNCHANGED <<dimVars, layoutX, rangeCenterMidi, warnings>>

SetWidthFactor(z) ==
  LET applied == setWidthFactor(width, widthFactor, layoutX, z)
  IN /\ LayoutCalled("setWidthFactor", z, Num(0))
     /\ widthFactor' = applied.widthFactor
     /\ layoutX' = applied.x
     /\ rangeVisibleKeys' = IF StrictEquals(applied.widthFactor, widthFactor)
                            THEN rangeVisibleKeys
                            ELSE Over(Rat(width, NATURAL_KEY_WIDTH), applied.widthFactor)
     /\ UNCHANGED <<dimVars, rangeCenterMidi, warnings>>

SetCenterMidi(midi) ==
  /\ LayoutCalled("setCenterMidi", Num(midi), Num(0))
  /\ rangeCenterMidi' = IF centerMidiAccepted(midi) THEN midi ELSE rangeCenterMidi
  /\ warnings' = IF centerMidiAccepted(midi) THEN warnings ELSE warnings + 1
  /\ UNCHANGED <<dimVars, widthFactor, layoutX, rangeVisibleKeys>>

SetRange(midi, count) ==
  LET newWidthFactor == setVisibleKeys(width, Num(count))
      targetX == centerMidiToX(width, newWidthFactor, midi)
  IN /\ LayoutCalled("setRange", Num(midi), Num(count))
     /\ IF rangeAccepted(midi, count)
        THEN /\ rangeCenterMidi' = midi
             /\ rangeVisibleKeys' = Num(count)
             /\ widthFactor' = newWidthFactor
             /\ layoutX' = getClampedX(width, newWidthFactor, targetX, FALSE)
             /\ UNCHANGED warnings
        ELSE /\ warnings' = warnings + 1
             /\ UNCHANGED <<rangeCenterMidi, rangeVisibleKeys, widthFactor, layoutX>>
     /\ UNCHANGED dimVars

NextLayout ==
  \/ \E w \in LayoutWidths : SetWidth(w)
  \/ \E h \in LayoutHeights : SetHeight(h)
  \/ \E px \in XInputs : SetX(px)
  \/ \E count \in VisibleKeyInputs : SetVisibleKeys(count)
  \/ \E z \in WidthFactorInputs : SetWidthFactor(z)
  \/ \E midi \in CenterInputs : SetCenterMidi(midi)
  \/ \E r \in RangeInputs : SetRange(r[1], r[2])

\* new Layout({ width, height, pianoHeight })
InitLayout ==
  /\ InitController
  /\ InitTracker
  /\ width \in LayoutWidths
  /\ height \in Heights
  /\ pianoHeight = DEFAULT_PIANO_HEIGHT
  /\ InitGesture
  /\ InitWheel
  /\ InitRange
  /\ InitAnimator
  /\ InitQueries

SpecLayout == InitLayout /\ [][NextLayout]_vars

----------------------------------------------------------------------------
(* The facade's ResizeObserver callback, among the mouse gestures and the ticker *)

\* container sizes the ResizeObserver reports: one width in each breakpoint tier
ResizeWidths == {600, 800, 1300}
ResizeHeights == {500}

\* a resize handler that leaves the pan target where the last gesture put it
Resize_KeepsTarget(w, h) ==
  LET lastRangeFromWidth == getBreakpointRange(width)
      newRangeFromWidth == getBreakpointRange(w)
      targetRange == IF lastRangeFromWidth = newRangeFromWidth
                     THEN rangeVisibleKeys
                     ELSE Num(newRangeFromWidth)
  IN /\ gestureCall' = [op |-> "resize", widthFactor |-> widthFactor, x |-> layoutX,
                        reported |-> reported, rendered |-> renderContainerX,
                        target |-> containerTargetX]
     /\ called' = 0
     /\ width' = w
     /\ rangeVisibleKeys' = targetRange
     /\ widthFactor' = setVisibleKeys(w, targetRange)
     /\ height' = h
     /\ renderContainerX' = layoutX
     /\ UNCHANGED <<layoutX, pianoHeight, mouseContext, pinchContext, mouseEvent, widthFactorLive,
                    widthFactorTarget, reported, gestureCount, containerTargetX,
                    keyVars, noteVars, wheelVars>>
     /\ UNCHANGED <<rangeCenterMidi, layoutCall, layoutCalls, layoutWas, warnings>>
     /\ UNCHANGED <<animVars, queryVars, touchVars>>

\* the ResizeObserver callback of the facade: layout.setWidth, layout.setHeight, then
\* renderContainer.x and containerTargetX are set to layout.getX()
Resize(w, h) ==
  LET lastRangeFromWidth == getBreakpointRange(width)
      newRangeFromWidth == getBreakpointRange(w)
      targetRange == IF lastRangeFromWidth = newRangeFromWidth
                     THEN rangeVisibleKeys
                     ELSE Num(newRangeFromWidth)
  IN /\ gestureCall' = [op |-> "resize", widthFactor |-> widthFactor, x |-> layoutX,
                        reported |-> reported, rendered |-> renderContainerX,
                        target |-> containerTargetX]
     /\ called' = 0
     /\ width' = w
     /\ rangeVisibleKeys' = targetRange
     /\ widthFactor' = setVisibleKeys(w, targetRange)
     /\ height' = h
     /\ renderContainerX' = layoutX
     /\ containerTargetX' = layoutX
     /\ UNCHANGED <<layoutX, pianoHeight, mouseContext, pinchContext, mouseEvent, widthFactorLive,
                    widthFactorTarget, reported, gestureCount, keyVars, noteVars, wheelVars>>
     /\ UNCHANGED <<rangeCenterMidi, layoutCall, layoutCalls, layoutWas, warnings>>
     /\ UNCHANGED <<animVars, queryVars, touchVars>>

\* the frames of the ticker while a resize may arrive: each leaves half a pixel of the
\* remaining distance, so that easing takes more than one tick
ResizeShortfalls == {Rat(1, 2)}

\* pointer positions of the drags a resize may interrupt: 200 pixels either way
ResizeClientXs == {100, 300}

NextResize ==
  \/ \E cx \in ResizeClientXs : onMouseDown(cx, getPianoY - 1)
  \/ \E cx \in ResizeClientXs : onMouseMove(cx)
  \/ onMouseUp("mouseup")
  \/ \E short \in ResizeShortfalls : Tick(short)
  \/ \E w \in ResizeWidths, h \in ResizeHeights : Resize(w, h)

SpecResize == InitNotes /\ [][NextResize]_vars

----------------------------------------------------------------------------
(* GestureAnimator *)

\* calls made on the animator
MaxAnimCalls == 4

\* Math.pow and Math.sqrt return the double nearest the exact value; the model keeps
\* their results to 1 / Precision
Precision == 8
\* the largest integer whose square is a 32-bit integer
MaxRoot == 46340

\* the integer part of the square root of v, searched between lo and hi
RECURSIVE RootBetween(_, _, _)
RootBetween(v, lo, hi) ==
  IF lo = hi THEN lo
  ELSE With((lo + hi + 1) \div 2,
            LAMBDA mid : IF mid * mid <= v
                         THEN RootBetween(v, mid, hi)
                         ELSE RootBetween(v, lo, mid - 1))

\* Math.sqrt of a number that is not negative
MathSqrt(a) ==
  With((a[1] * Precision * Precision) \div a[2],
       LAMBDA v : With(RootBetween(v, 0, IF v < MaxRoot THEN v ELSE MaxRoot),
                       LAMBDA root : Rat(root, Precision)))

\* Math.pow(a, 1.5)
MathPow15(a) ==
  With(a, LAMBDA base :
    With(Times(base, MathSqrt(base)), LAMBDA exact :
      With(Times(exact, Num(Precision)), LAMBDA scaled :
        With(MathRound(scaled), LAMBDA rounded : Rat(rounded, Precision)))))

\* EasingConfig: the defaults of the constructor
deltaPowtValue == <<3, 2>>
deltaDivisor == 600

\* positions passed to setPosition and setTarget
AnimPositions == {Num(0), Rat(199, 2), Num(100), Num(144)}
\* ticker.deltaMS: no time passed, a frame at 60 fps, and the 100 ms of a slow frame
DeltaMSInputs == {Num(0), Rat(50, 3), Num(100)}

\* a step that is never less than one pixel and never more than the distance left
getEasingStep_Capped(deltaX, deltaMS) ==
  MathMin(MathAbs(deltaX),
          MathMax(Over(Times(deltaMS, MathPow15(MathAbs(deltaX))), Num(deltaDivisor)), Num(1)))

\* GestureAnimator.getEasingStep
getEasingStep(deltaX, deltaMS) ==
  With(MathPow15(MathAbs(deltaX)), LAMBDA pow :
    With(Over(Times(deltaMS, pow), Num(deltaDivisor)), LAMBDA eased :
      MathMax(eased, Num(1))))

\* GestureAnimator.animate: x.current afterwards
animate(current, target, deltaMS) ==
  With(Minus(target, current), LAMBDA deltaX :
    IF deltaX = Num(0) THEN current
    ELSE IF LessEq(MathAbs(deltaX), Num(1)) THEN target
    ELSE With(getEasingStep(deltaX, deltaMS), LAMBDA easingStep :
           IF LessEq(Num(1), deltaX) THEN Plus(current, easingStep)
           ELSE IF LessEq(deltaX, Num(-1)) THEN Minus(current, easingStep)
           ELSE current))

\* the objects a call on the animator leaves alone
AnimatorAlone ==
  UNCHANGED <<keyVars, dimVars, noteVars, gestureVars, wheelVars, rangeVars, queryVars,
              touchVars>>

AnimatorCalled(op, arg) ==
  /\ AnimatorAlone
  /\ animCall' = [op |-> op, arg |-> arg]
  /\ animWas' = [current |-> animCurrent, target |-> animTarget]

\* GestureAnimator.setPosition
SetPosition(px) ==
  /\ animCalls < MaxAnimCalls
  /\ animCalls' = animCalls + 1
  /\ AnimatorCalled("setPosition", px)
  /\ animCurrent' = px
  /\ animNotified' = <<px>>
  /\ UNCHANGED animTarget

\* a setTarget that reports the new target to the observer at once
SetTarget_Notifies(px) ==
  /\ animCalls < MaxAnimCalls
  /\ animCalls' = animCalls + 1
  /\ AnimatorCalled("setTarget", px)
  /\ animTarget' = px
  /\ animNotified' = <<px>>
  /\ UNCHANGED animCurrent

\* GestureAnimator.setTarget
SetTarget(px) ==
  /\ animCalls < MaxAnimCalls
  /\ animCalls' = animCalls + 1
  /\ AnimatorCalled("setTarget", px)
  /\ animTarget' = px
  /\ animNotified' = <<>>
  /\ UNCHANGED animCurrent

\* GestureAnimator.animate, called by the ticker
Animate(deltaMS) ==
  /\ AnimatorCalled("animate", deltaMS)
  /\ animCurrent' = animate(animCurrent, animTarget, deltaMS)
  /\ animNotified' = IF animTarget = animCurrent THEN <<>> ELSE <<animCurrent'>>
  /\ UNCHANGED animTarget

\* one of a bounded number of ticks
AnimateCounted(deltaMS) ==
  /\ animCalls < MaxAnimCalls
  /\ animCalls' = animCalls + 1
  /\ Animate(deltaMS)

\* a tick of a ticker that runs for ever
AnimateTick(deltaMS) ==
  /\ UNCHANGED animCalls
  /\ Animate(deltaMS)

NextAnimator ==
  \/ \E px \in AnimPositions : SetPosition(px)
  \/ \E px \in AnimPositions : SetTarget(px)
  \/ \E deltaMS \in DeltaMSInputs : AnimateCounted(deltaMS)

SpecAnimator == InitNotes /\ [][NextAnimator]_vars

\* the animator after setPosition(c) and setTarget(t), with the ticker running and
\* nothing else calling it
InitTicking ==
  /\ InitTracker
  /\ InitController
  /\ width \in Widths
  /\ height \in Heights
  /\ pianoHeight = DEFAULT_PIANO_HEIGHT
  /\ InitGesture
  /\ InitWheel
  /\ InitRange
  /\ InitQueries
  /\ animCurrent \in AnimPositions
  /\ animTarget \in AnimPositions
  /\ animNotified = <<>>
  /\ animCall = [op |-> "setTarget", arg |-> animTarget]
  /\ animWas = [current |-> animCurrent, target |-> animTarget]
  /\ animCalls = 2

\* ticker.deltaMS of the running ticker: no time passed, and a slow frame
TickDeltaMS == {Num(0), Num(100)}

NextTicking == \E deltaMS \in TickDeltaMS : AnimateTick(deltaMS)

SpecTicking == InitTicking /\ [][NextTicking]_vars /\ WF_vars(NextTicking)

----------------------------------------------------------------------------
(* Queries of Layout and Pitch: the conversions between notes and positions *)

\* calls of setVisibleKeys made before the queries
MaxZooms == 1

\* visible-key counts the queries are made at, besides the breakpoint defaults of the
\* constructor: the ends of the window, a fractional count, and counts around 29
ZoomInputs == {Num(5), Rat(21, 2), Num(29), Num(30), Num(52)}
\* notes passed to centerMidiToX: every key of the keyboard
QueryNotes == MIDI_MIN .. MIDI_MAX
\* note numbers passed to new Pitch: negative ones, the keyboard, and beyond it
PitchInputs == -25 .. 130

\* closestMidi = 60, closestDistance = Infinity
NoClosest == [midi |-> 60, distance |-> <<1, 0>>]

\* Layout.xToCenterMidi: what its loop leaves in closestMidi / closestDistance after
\* the keys first .. last. The loop keeps the first key whose distance is smaller
\* than every distance before it; the halves of the range are combined the same way.
RECURSIVE ClosestIn(_, _, _)
ClosestIn(first, last, offsetX) ==
  IF first = last
  THEN LET noteX == CHROMA_X_POSITIONS[PitchChroma(first) + 1]
                      + PitchOctave(first) * OCTAVE_WIDTH
           distance == MathAbs(Minus(Num(noteX), offsetX))
       IN IF Less(distance, NoClosest.distance)
          THEN [midi |-> first, distance |-> distance]
          ELSE NoClosest
  ELSE LET middle == (first + last) \div 2
           lower == ClosestIn(first, middle, offsetX)
           upper == ClosestIn(middle + 1, last, offsetX)
       IN IF Less(upper.distance, lower.distance) THEN upper ELSE lower

\* the conversion with the screen center subtracted instead of added
xToCenterMidi_CenterSubtracted(w, wf, px) ==
  LET screenCenterX == Rat(w, 2)
      offsetX == Plus(Over(Minus(px, screenCenterX), wf), Num(DEFAULT_X_OFFSET))
  IN ClosestIn(21, 108, offsetX).midi

\* Layout.xToCenterMidi
xToCenterMidi(w, wf, px) ==
  LET screenCenterX == Rat(w, 2)
      offsetX == Plus(Over(Plus(px, screenCenterX), wf), Num(DEFAULT_X_OFFSET))
  IN ClosestIn(21, 108, offsetX).midi

\* a query leaves every object as it is, so what a later query returns does not
\* depend on it: a behaviour makes one query
QueryMade ==
  /\ query = NoQuery
  /\ UNCHANGED <<keyVars, dimVars, noteVars, gestureVars, wheelVars, rangeVars, animVars,
                 touchVars>>

\* layout.setVisibleKeys(count) before the queries
ZoomTo(count) ==
  /\ layoutCalls < MaxZooms
  /\ query = NoQuery
  /\ SetVisibleKeys(count)

\* layout.xToCenterMidi(layout.centerMidiToX(midi))
CenterRoundTrip(midi) ==
  LET px == centerMidiToX(width, widthFactor, midi)
  IN /\ QueryMade
     /\ query' = [NoQuery EXCEPT !.op = "xToCenterMidi", !.midi = midi, !.x = px,
                                 !.back = xToCenterMidi(width, widthFactor, px)]

\* new Pitch(midi)
NewPitch(midi) ==
  /\ QueryMade
  /\ query' = [NoQuery EXCEPT !.op = "Pitch", !.midi = midi,
                              !.chroma = PitchChroma(midi), !.octave = PitchOctave(midi)]

\* layout.getKeyElement(midi)
GetKeyElement(midi) ==
  /\ QueryMade
  /\ query' = [NoQuery EXCEPT !.op = "getKeyElement", !.midi = midi,
                              !.x = getKeyElementX(midi, widthFactor)]

NextQueries ==
  \/ \E count \in ZoomInputs : ZoomTo(count)
  \/ \E midi \in QueryNotes : CenterRoundTrip(midi)
  \/ \E midi \in PitchInputs : NewPitch(midi)
  \/ \E midi \in QueryNotes : GetKeyElement(midi)

SpecQueries == InitLayout /\ [][NextQueries]_vars

----------------------------------------------------------------------------
(* Claims about the key input controller (checked under SpecKeys) *)

PreTouch(q) == TouchGet(pre.touchMidiById, q)
NowTouch(q) == TouchGet(touchMidiById, q)
TouchOps == {"touchstart", "touchmove"} \cup TouchEndOps \cup GlobalTouchEndOps
              \cup TouchReleaseOps \cup {"globaltouchmove"}
ReleaseTouchOps == TouchEndOps \cup GlobalTouchEndOps \cup TouchReleaseOps

\* C1: when a stream that holds note a (the pressed mouse, a touch pointer) moves
\* onto the key of another note b, the calls made are exactly key-up(a) then
\* key-down(b), and the stream then holds b; moving onto the key it already holds
\* makes no call and changes nothing.
C1_GlideUpThenDown ==
  /\ (lastOp.op = "mouseenter" /\ pre.isMouseDown /\ pre.mouseMidi # NoNote)
       => IF pre.mouseMidi # lastOp.midi
            THEN /\ emitted = <<KeyUp(pre.mouseMidi), KeyDown(lastOp.midi)>>
                 /\ mouseMidi = lastOp.midi
            ELSE /\ emitted = <<>>
                 /\ mouseMidi = pre.mouseMidi
  /\ (lastOp.op = "touchmove" /\ PreTouch(lastOp.pointerId) # NoNote)
       => IF PreTouch(lastOp.pointerId) # lastOp.midi
            THEN /\ emitted = <<KeyUp(PreTouch(lastOp.pointerId)), KeyDown(lastOp.midi)>>
                 /\ NowTouch(lastOp.pointerId) = lastOp.midi
            ELSE /\ emitted = <<>>
                 /\ touchMidiById = pre.touchMidiById

\* C1 witness: a touch pointer holding one note has just moved onto another key,
\* and so has the pressed mouse in an earlier or later step
C1_Witness ==
  /\ lastOp.op = "touchmove"
  /\ PreTouch(lastOp.pointerId) \notin {NoNote, lastOp.midi}
  /\ Len(emitted) = 2
  /\ mouseMidi # NoNote

\* C2: a release of a stream that holds a note (mouse-up, touch-end, touch-cancel,
\* also when the key's handler and the region-wide handler both run for it) makes
\* exactly one key-up call, for the held note, and clears the held note; a release
\* of a stream holding nothing makes no call.
C2_ReleaseEmitsOneKeyUp ==
  /\ lastOp.op = "mouseup"
       => /\ emitted = (IF pre.mouseMidi # NoNote THEN <<KeyUp(pre.mouseMidi)>> ELSE <<>>)
          /\ mouseMidi = NoNote
  /\ lastOp.op \in ReleaseTouchOps
       => /\ emitted = (IF PreTouch(lastOp.pointerId) # NoNote
                          THEN <<KeyUp(PreTouch(lastOp.pointerId))>> ELSE <<>>)
          /\ NowTouch(lastOp.pointerId) = NoNote
          /\ lastOp.pointerId \notin DOMAIN touchMidiById

\* C2 witness: a touch release that ran both handlers for a pointer holding a note
C2_Witness ==
  /\ lastOp.op \in TouchReleaseOps
  /\ PreTouch(lastOp.pointerId) # NoNote
  /\ Len(emitted) = 1

\* C3: every event of touch pointer p leaves the held note of every other pointer q
\* (and the mouse's) as it was, and makes calls only for p's own notes: the note p
\* held and the key p is on; events of the mouse leave every touch pointer's note
\* as it was.
C3_TouchPointersIndependent ==
  /\ lastOp.op \in TouchOps
       => /\ \A q \in Pointers \ {lastOp.pointerId} : NowTouch(q) = PreTouch(q)
          /\ mouseMidi = pre.mouseMidi
          /\ isMouseDown = pre.isMouseDown
          /\ \A i \in 1 .. Len(emitted) :
               \/ emitted[i] = KeyUp(PreTouch(lastOp.pointerId))
               \/ emitted[i] = KeyDown(lastOp.midi)
  /\ lastOp.op \in {"mousedown", "mouseup", "mouseenter", "globalmousemove"}
       => touchMidiById = pre.touchMidiById

\* C3 witness: two pointers held different notes, one was released, the other
\* still holds its note
C3_Witness ==
  /\ lastOp.op \in ReleaseTouchOps \cup {"globaltouchmove"}
  /\ PreTouch(lastOp.pointerId) # NoNote
  /\ NowTouch(lastOp.pointerId) = NoNote
  /\ \E q \in Pointers \ {lastOp.pointerId} :
       /\ NowTouch(q) # NoNote
       /\ NowTouch(q) # PreTouch(lastOp.pointerId)

\* the claim's own reading of "outside the keyboard strip"
OutsideStrip(clientX, clientY) ==
  \/ clientY < height - pianoHeight
  \/ clientY > height
  \/ clientX < 0
  \/ clientX > width

\* C4: a region-wide move that reports the pointer outside the keyboard strip while
\* the stream holds a note makes exactly one key-up call for that note and clears
\* the held note (for the mouse the pressed flag too, so that entering a key without
\* a new press makes no call); a move inside the bounds releases nothing.
C4_LeavingBoundsReleases ==
  /\ (lastOp.op = "globalmousemove" /\ pre.mouseMidi # NoNote)
       => IF OutsideStrip(lastOp.x, lastOp.y)
            THEN /\ emitted = <<KeyUp(pre.mouseMidi)>>
                 /\ mouseMidi = NoNote
                 /\ isMouseDown = FALSE
            ELSE /\ emitted = <<>>
                 /\ mouseMidi = pre.mouseMidi
                 /\ isMouseDown = pre.isMouseDown
  /\ (lastOp.op = "globaltouchmove" /\ PreTouch(lastOp.pointerId) # NoNote)
       => IF OutsideStrip(lastOp.x, lastOp.y)
            THEN /\ emitted = <<KeyUp(PreTouch(lastOp.pointerId))>>
                 /\ NowTouch(lastOp.pointerId) = NoNote
            ELSE /\ emitted = <<>>
                 /\ touchMidiById = pre.touchMidiById
  /\ (lastOp.op = "mouseenter" /\ ~pre.isMouseDown)
       => /\ emitted = <<>>
          /\ mouseMidi = pre.mouseMidi
  /\ (mouseMidi = NoNote) <=> ~isMouseDown

\* C4 witness: the mouse held a note and a move left of the strip (inside its
\* vertical bounds) released it
C4_Witness ==
  /\ lastOp.op = "globalmousemove"
  /\ pre.mouseMidi # NoNote
  /\ lastOp.x < 0
  /\ lastOp.y >= height - pianoHeight
  /\ lastOp.y <= height
  /\ emitted = <<KeyUp(pre.mouseMidi)>>

----------------------------------------------------------------------------
(* Claims about the active-key tracker (SpecTracker) and the facade (SpecNotes) *)

Entries(keys, n) == IF n \in DOMAIN keys THEN keys[n] ELSE <<>>
HasIdentifier(id) == id # NoId /\ id # ""
InKeyboardRange(n) == n >= 21 /\ n <= 108

\* seq without its i-th element
WithoutIndex(seq, i) == [j \in 1 .. (Len(seq) - 1) |-> IF j < i THEN seq[j] ELSE seq[j + 1]]

\* the lists of every note but m are the same in the two maps
OtherNotesSame(keysBefore, keysAfter, m) ==
  /\ (DOMAIN keysBefore) \ {m} = (DOMAIN keysAfter) \ {m}
  /\ \A n \in (DOMAIN keysBefore) \ {m} : keysAfter[n] = keysBefore[n]

\* C5: keyUp(note, id) with an identifier removes exactly the entries of that note
\* whose identifier is id: the entries with another identifier or none stay, in
\* their order, the note's key is deleted when none stays, and the lists of the
\* other notes are untouched.
C5_IdentifiedKeyUpRemovesOnlyMatching ==
  [][ (lastCall'.op = "keyUp" /\ HasIdentifier(lastCall'.identifier)
         /\ InKeyboardRange(lastCall'.midi))
      => LET m == lastCall'.midi
             id == lastCall'.identifier
             before == Entries(activeKeys, m)
             after == Entries(activeKeys', m)
             Kept == {i \in 1 .. Len(before) : before[i].identifier # id}
             Rank(i) == Cardinality({j \in Kept : j <= i})
         IN /\ Len(after) = Cardinality(Kept)
            /\ \A i \in Kept : after[Rank(i)] = before[i]
            /\ (m \in DOMAIN activeKeys') <=> (Kept # {})
            /\ OtherNotesSame(activeKeys, activeKeys', m)
    ]_vars

\* C5 witness: note 60 was pressed as 'a' and as 'b' (the later press), keyUp(60,'a')
\* has removed one entry and the entry of 'b' is what is left
C5_Witness ==
  /\ lastCall = [op |-> "keyUp", midi |-> 60, identifier |-> "a", removed |-> 1]
  /\ DOMAIN activeKeys = {60}
  /\ Len(activeKeys[60]) = 1
  /\ activeKeys[60][1].identifier = "b"
  /\ activeKeys[60][1].order = 2

\* C6: keyUp(note) without an identifier removes the most recently added entry of
\* the note that has no identifier, and no entry that carries one; the note's key
\* is deleted when the list becomes empty.
C6_AnonymousKeyUpKeepsIdentified ==
  [][ (lastCall'.op = "keyUp" /\ ~HasIdentifier(lastCall'.identifier)
         /\ InKeyboardRange(lastCall'.midi))
      => LET m == lastCall'.midi
             before == Entries(activeKeys, m)
             after == Entries(activeKeys', m)
             Anonymous == {i \in 1 .. Len(before) : ~HasIdentifier(before[i].identifier)}
         IN /\ IF Anonymous = {}
                 THEN after = before
                 ELSE after = WithoutIndex(before,
                                CHOOSE i \in Anonymous : \A j \in Anonymous : j <= i)
            /\ (m \in DOMAIN activeKeys') <=> (after # <<>>)
    ]_vars

\* the entry of a note that was added last, by the order of the presses
MostRecentColor(n) ==
  LET held == Entries(activeKeys, n) IN
  IF held = <<>> THEN NoColor
  ELSE LET last == CHOOSE i \in 1 .. Len(held) :
                     \A j \in 1 .. Len(held) : held[j].order <= held[i].order
       IN held[last].color

\* C7: once rendered, every key is drawn with the color of the most recently added
\* entry still held for its note, whatever the identifiers, and with no highlight
\* color when no entry is held.
C7_DrawnColorIsMostRecent ==
  ~needsRedraw => \A n \in DrawnKeys : drawnColor[n] = MostRecentColor(n)

\* C7 witness: the later of two presses of a key was released by its identifier and
\* the key, rendered again, shows the color of the earlier press
C7_Witness ==
  /\ ~needsRedraw
  /\ lastCall.op = "render"
  /\ pressCount = 2
  /\ DOMAIN activeKeys = {60}
  /\ Len(activeKeys[60]) = 1
  /\ activeKeys[60][1].order = 1
  /\ drawnColor[60] = activeKeys[60][1].color
  /\ drawnColor[60] # NoColor

\* C8: startNote / endNote with a note outside [21,108] changes neither the
\* keyboard's active-key lists nor the note roll's block lists.
C8_InvalidNoteChangesNothing ==
  [][ (lastCall'.op \in {"startNote", "endNote"} /\ ~InKeyboardRange(lastCall'.midi))
      => /\ activeKeys' = activeKeys
         /\ blocks' = blocks
    ]_vars

----------------------------------------------------------------------------
(* Claims about gesture completion (checked under SpecGesture) *)

\* a is a whole multiple of b
IsWholeMultiple(a, b) == Over(a, b)[2] = 1

\* the natural-key width at a width factor
NaturalKeyWidthAt(wf) == Times(Num(NATURAL_KEY_WIDTH), wf)

\* the zoom the completion that just ran had to quantize, quantized
CompletedZoom == getQuantizedWidthFactor(width, gestureCall.widthFactor)

\* C9: after completeGesture the Layout holds the quantized zoom, the pan target
\* pushed is the Layout's pan quantized at that zoom, so a whole multiple of the
\* natural-key width at the quantized zoom, and the zoom target pushed is the
\* quantized zoom.
C9_ZoomQuantizedBeforePan ==
  gestureCall.op \in CompletionOps =>
    /\ widthFactor = CompletedZoom
    /\ widthFactorTarget = CompletedZoom
    /\ IsWholeMultiple(containerTargetX, NaturalKeyWidthAt(CompletedZoom))
    /\ MathRound(Over(layoutX, NaturalKeyWidthAt(CompletedZoom)))
         = Over(containerTargetX, NaturalKeyWidthAt(CompletedZoom))[1]

\* C9 witness: a pinch ended at a fractional key count; the completion changed the
\* zoom and pushed a pan target that is not zero and not on the grid of the zoom
\* the pinch had left
C9_Witness ==
  /\ gestureCall.op = "gestureend"
  /\ gestureCall.widthFactor # widthFactor
  /\ containerTargetX # Num(0)
  /\ ~IsWholeMultiple(containerTargetX, NaturalKeyWidthAt(gestureCall.widthFactor))

\* C10: when a drag ends with mouse-up or mouse-leave, the pan target pushed is the
\* last position the drag reported through onContainerXChange, quantized, whether
\* or not a tick ran between the last move and the release.
C10_PanTargetIsQuantizedLastReport ==
  (gestureCall.op \in {"mouseup", "mouseleave"} /\ gestureCall.reported # NoReport)
    => containerTargetX = getQuantizedX(widthFactor, gestureCall.reported)

----------------------------------------------------------------------------
(* Claims about dispose and debounce (SpecWheel, SpecDebounce) *)

\* C11: once dispose() has returned, no step invokes a callback of the controller
\* or changes the Layout's zoom or pan, a pending wheel-settle timer included.
C11_NothingRunsAfterDispose ==
  [][ disposed => /\ called' = 0
                  /\ widthFactor' = widthFactor
                  /\ layoutX' = layoutX
                  /\ containerTargetX' = containerTargetX
                  /\ widthFactorTarget' = widthFactorTarget
    ]_vars

\* the timers pending for a debounced function
TimersOf(fn) == {t \in pendingTimers : t.fn = fn}

\* the runs of fn's callback that served its i-th call
RunsServing(fn, i) ==
  {k \in 1 .. Len(callbackLog[fn]) : callbackLog[fn][k].calls = i}

\* the i-th call of fn was followed by a silence of the whole delay (for the last
\* call: the delay has passed and the timer task, if due, has had its turn)
SilenceAfter(fn, i) ==
  IF i < Len(callLog[fn])
  THEN callLog[fn][i + 1].at >= callLog[fn][i].at + Wait(fn)
  ELSE now >= callLog[fn][i].at + Wait(fn) /\ \A t \in TimersOf(fn) : now < t.due

\* C12: for each debounced function (the wheel-settle of the controller and a
\* stand-alone one): at most one timer is pending; every run of the callback
\* comes at least the delay after the most recent call and has that call's
\* arguments; a call is served by exactly one run when the delay passed with no
\* further call, and by none otherwise -- so a burst of wheel events closer than
\* 30 ms gives one completeGesture, after the last of them.
C12_DebounceRunsOncePerSilence ==
  \A fn \in Debounced :
    /\ Cardinality(TimersOf(fn)) <= 1
    /\ \A k \in 1 .. Len(callbackLog[fn]) :
         LET run == callbackLog[fn][k]
         IN /\ run.calls \in 1 .. Len(callLog[fn])
            /\ run.at >= callLog[fn][run.calls].at + Wait(fn)
            /\ run.args = callLog[fn][run.calls].args
    /\ \A i \in 1 .. Len(callLog[fn]) :
         Cardinality(RunsServing(fn, i)) = (IF SilenceAfter(fn, i) THEN 1 ELSE 0)

\* C12 witness: two wheel events 10 ms apart were settled once, after the second;
\* the stand-alone function was called twice within its delay with different
\* arguments and ran once, with the second call's
C12_Witness ==
  /\ Len(callLog["onWheelSettled"]) = 2
  /\ callLog["onWheelSettled"][2].at - callLog["onWheelSettled"][1].at = TimeStep
  /\ Len(callbackLog["onWheelSettled"]) = 1
  /\ callbackLog["onWheelSettled"][1].calls = 2
  /\ Len(callLog["debouncedFn"]) = 2
  /\ callLog["debouncedFn"][2].at - callLog["debouncedFn"][1].at = TimeStep
  /\ callLog["debouncedFn"][1].args # callLog["debouncedFn"][2].args
  /\ Len(callbackLog["debouncedFn"]) = 1
  /\ callbackLog["debouncedFn"][1].args = callLog["debouncedFn"][2].args

----------------------------------------------------------------------------
(* Claims about the mouse stream of the viewport controller (SpecGesture) *)

\* the position a move of the mouse has to report while dragging
DragPosition ==
  getClampedX(width, widthFactor,
              Plus(mouseContext.containerX, Num(mouseEvent'.clientX - mouseContext.clientX)),
              TRUE)

----------------------------------------------------------------------------
(* Claims about Layout alone (checked under SpecLayout) *)

\* the number of natural keys the viewport shows: width / (100 * widthFactor)
VisibleNaturalKeys == Over(Num(width), Times(Num(NATURAL_KEY_WIDTH), widthFactor))
InKeyWindow(k) == LessEq(Num(5), k) /\ LessEq(k, Num(52))
\* the edges of the 88-key content at the current zoom
FirstKeyLeft == getKeyElementX(MIDI_MIN, widthFactor)
LastKeyRight == Plus(getKeyElementX(MIDI_MAX, widthFactor),
                     getKeyElementWidth(MIDI_MAX, widthFactor))
ContentWiderThanViewport == Less(Num(width), Minus(LastKeyRight, FirstKeyLeft))
\* the last call was a setRange whose arguments were accepted
AcceptedSetRange ==
  /\ layoutCall.op = "setRange"
  /\ rangeCenterMidi = layoutCall.a[1]
  /\ rangeVisibleKeys = layoutCall.b
  /\ layoutCall.a[1] \in MIDI_MIN .. MIDI_MAX

\* C14: after the constructor, setWidth, setVisibleKeys, setWidthFactor and every
\* accepted setRange, the number of visible natural keys, width / (100 * widthFactor),
\* lies in [5, 52].
C14_VisibleKeysInWindow ==
  (\/ layoutCall.op \in {"new", "setWidth", "setVisibleKeys", "setWidthFactor"}
   \/ AcceptedSetRange)
    => InKeyWindow(VisibleNaturalKeys)

\* C15: after setWidth, setHeight, setX, setVisibleKeys, setWidthFactor and setRange
\* the stored pan offset is within the clamp bounds of the current width and zoom:
\* getX() = getClampedX(getX()).
C15_PanWithinClampBounds ==
  layoutCall.op \in {"setWidth", "setHeight", "setX", "setVisibleKeys",
                     "setWidthFactor", "setRange"}
    => StrictEquals(layoutX, getClampedX(width, widthFactor, layoutX, FALSE))

\* C16: whatever z is passed to setWidthFactor (zero, negative, very large, ...),
\* the number of visible natural keys after the call lies in [5, 52].
C16_SetWidthFactorKeepsWindow ==
  layoutCall.op = "setWidthFactor" => InKeyWindow(VisibleNaturalKeys)

\* C17: whenever the 88-key content is wider than the viewport, at every zoom showing
\* 5 to 52 natural keys and for every requested x, the x that getClampedX returns
\* (stored by setX) keeps the first key's left edge at or left of the viewport's left
\* edge and the last key's right edge at or right of the viewport's right edge.
C17_ContentEdgesCoverViewport ==
  (/\ layoutCall.op = "setX"
   /\ InKeyWindow(VisibleNaturalKeys)
   /\ ContentWiderThanViewport)
    => /\ LessEq(Plus(FirstKeyLeft, layoutX), Num(0))
       /\ LessEq(Num(width), Plus(LastKeyRight, layoutX))

\* the breakpoint tier of a width and its default count of visible keys
Tier(w) == IF w < 700 THEN 8 ELSE IF w < 1200 THEN 12 ELSE 16
ResizeCrossedTier == Tier(layoutWas.width) # Tier(width)
WasTierDefault == layoutWas.visibleKeys = Num(Tier(layoutWas.width))

CenterArgValid == layoutCall.a[1] \in 21 .. 108 /\ layoutCall.a[2] = 1
KeysArgValid == LessEq(Num(4), layoutCall.b) /\ LessEq(layoutCall.b, Num(88))
RejectedCall ==
  \/ layoutCall.op = "setCenterMidi" /\ ~CenterArgValid
  \/ layoutCall.op = "setRange" /\ ~(CenterArgValid /\ KeysArgValid)

\* C19: setCenterMidi(m) with m outside 21..108, and setRange(c, v) with c outside
\* 21..108 or v outside the accepted window 4..88, return after a warning and leave
\* every Layout field (center note, visible keys, width factor, pan x, size) as it was;
\* valid calls are accepted whatever was rejected before them.
C19_RejectedCallsChangeNothing ==
  /\ RejectedCall => LayoutFields = layoutWas /\ warnings > 0
  /\ (layoutCall.op = "setCenterMidi" /\ CenterArgValid)
       => rangeCenterMidi = layoutCall.a[1]
  /\ (layoutCall.op = "setRange" /\ CenterArgValid /\ KeysArgValid)
       => /\ rangeCenterMidi = layoutCall.a[1]
          /\ rangeVisibleKeys = layoutCall.b
          /\ widthFactor = Over(Rat(width, NATURAL_KEY_WIDTH), layoutCall.b)

\* C19 witness: two calls were rejected, the later one a setRange for its visible-key
\* count, and a valid call between or before them had set the center note
C19_Witness ==
  /\ layoutCall.op = "setRange"
  /\ CenterArgValid
  /\ ~KeysArgValid
  /\ warnings = 2
  /\ LayoutFields = layoutWas
  /\ rangeCenterMidi = 72

\* the bounds getClampedX applies when the content is wider than the viewport
PanMin == MathMin(Num(0), Minus(Num(width), LastKeyRight))
PanMax == MathMax(Num(0), Minus(Num(0), FirstKeyLeft))
PanNotLimited ==
  /\ ContentWiderThanViewport
  /\ Less(PanMin, layoutX)
  /\ Less(layoutX, PanMax)

\* C20: after an accepted setRange(c, v) whose pan the clamp did not limit, the key
\* of note c is drawn at the horizontal center of the viewport:
\* getKeyElement(c).x + getX() = width / 2.
C20_SetRangeCentersNote ==
  (AcceptedSetRange /\ PanNotLimited)
    => Plus(getKeyElementX(rangeCenterMidi, widthFactor), layoutX) = Rat(width, 2)

\* the content point under the horizontal center of the viewport, in layout units
CenterPoint(px, wf) == Over(Minus(Rat(width, 2), px), wf)

\* C22: after a setWidthFactor(z) whose resulting pan the clamp did not alter, the
\* content point that was at the viewport's horizontal center before the call is at
\* the center after it: (width/2 - x') / widthFactor' = (width/2 - x) / widthFactor.
C22_ZoomAboutCenter ==
  (layoutCall.op = "setWidthFactor" /\ PanNotLimited)
    => CenterPoint(layoutX, widthFactor) = CenterPoint(layoutWas.x, layoutWas.widthFactor)

\* C22 witness: a zoom changed the width factor and moved the pan to a position
\* strictly inside the clamp bounds
C22_Witness ==
  /\ layoutCall.op = "setWidthFactor"
  /\ PanNotLimited
  /\ widthFactor # layoutWas.widthFactor
  /\ layoutX # layoutWas.x
  /\ InKeyWindow(Over(Rat(width, NATURAL_KEY_WIDTH), layoutWas.widthFactor))

----------------------------------------------------------------------------
(* Claims about the conversions (checked under SpecQueries) *)

\* C21: for every note n of 21..108 and every zoom showing 5 to 52 natural keys,
\* xToCenterMidi(centerMidiToX(n)) is within one semitone of n.
C21_CenterRoundTrip ==
  (query.op = "xToCenterMidi" /\ InKeyWindow(VisibleNaturalKeys))
    => Abs(query.back - query.midi) <= 1

\* C21 witness: the top key converted and back at the widest zoom
C21_Witness ==
  /\ query.op = "xToCenterMidi"
  /\ query.midi = MIDI_MAX
  /\ query.back = MIDI_MAX
  /\ VisibleNaturalKeys = Num(52)
  /\ query.x # layoutX

\* the rectangle [x, x + width) of a key at the current zoom
KeyLeft(midi) == getKeyElementX(midi, widthFactor)
KeyRight(midi) == Plus(KeyLeft(midi), getKeyElementWidth(midi, widthFactor))
KeysOverlap(m, n) == Less(KeyLeft(m), KeyRight(n)) /\ Less(KeyLeft(n), KeyRight(m))
KeyboardNotes == MIDI_MIN .. MIDI_MAX
NaturalNotes == {m \in KeyboardNotes : PitchIsNatural(m)}
AccidentalNotes == KeyboardNotes \ NaturalNotes

\* C28 as stated: at every zoom the rectangles [x, x + width) that getKeyElement
\* returns for two distinct notes of 21..108 are disjoint.
C28_KeyRectanglesDisjoint ==
  query.op = "getKeyElement"
    => \A n \in KeyboardNotes \ {query.midi} : ~KeysOverlap(query.midi, n)

\* C28: at every zoom the rectangles of two distinct natural keys are disjoint, and
\* so are those of two distinct accidental keys; the natural keys tile the keyboard
\* from the first key's left edge to the last key's right edge, and the rectangle of
\* an accidental key overlaps the natural keys on both of its sides.
C28_NaturalKeysTile ==
  (query.op = "getKeyElement" /\ InKeyWindow(VisibleNaturalKeys))
    => LET m == query.midi
       IN IF m \in NaturalNotes
          THEN /\ \A n \in NaturalNotes \ {m} : ~KeysOverlap(m, n)
               /\ m # MIDI_MAX => \E n \in NaturalNotes : KeyLeft(n) = KeyRight(m)
               /\ query.x = KeyLeft(m)
          ELSE /\ \A n \in AccidentalNotes \ {m} : ~KeysOverlap(m, n)
               /\ Cardinality({n \in NaturalNotes : KeysOverlap(m, n)}) = 2

\* C28 witness: the rectangle of a black key asked for, which overlaps the key below
C28_Witness ==
  /\ query.op = "getKeyElement"
  /\ query.midi = 61
  /\ KeysOverlap(61, 60)
  /\ VisibleNaturalKeys = Num(5)

\* C29: for every integer note number, negative ones too, Pitch computes a chroma in
\* 0..11 and an octave with 12 * octave + chroma equal to the note number.
C29_PitchDecomposesNote ==
  query.op = "Pitch"
    => /\ query.chroma \in 0 .. 11
       /\ 12 * query.octave + query.chroma = query.midi

----------------------------------------------------------------------------
(* Claims about GestureAnimator (checked under SpecAnimator and SpecTicking) *)

\* the distance left before the last call, and the direction of the target
DistanceBefore == MathAbs(Minus(animWas.target, animWas.current))
TowardTarget(step) ==
  IF Less(animWas.current, animWas.target)
  THEN Plus(animWas.current, step)
  ELSE Minus(animWas.current, step)

\* C23: a tick with current = target changes nothing and notifies nobody; with
\* 0 < |target - current| <= 1 it makes current the target and notifies once;
\* otherwise it moves current toward the target by
\* max(deltaMS * |target - current|^p / d, 1) and notifies once with the new
\* current; a tick never changes the target.
C23_TickCases ==
  animCall.op = "animate"
    => /\ animTarget = animWas.target
       /\ IF DistanceBefore = Num(0)
          THEN animCurrent = animWas.current /\ animNotified = <<>>
          ELSE IF LessEq(DistanceBefore, Num(1))
          THEN animCurrent = animTarget /\ animNotified = <<animTarget>>
          ELSE /\ animCurrent =
                    TowardTarget(MathMax(Over(Times(animCall.arg, MathPow15(DistanceBefore)),
                                              Num(600)),
                                         Num(1)))
               /\ animNotified = <<animCurrent>>

\* C23 witness: a tick of 16.67 ms with 100 px left moved current by 1000 / 36
C23_Witness ==
  /\ animCall.op = "animate"
  /\ animCall.arg = Rat(50, 3)
  /\ animWas.current = Num(0)
  /\ animTarget = Num(100)
  /\ animCurrent = Rat(250, 9)
  /\ animNotified = <<Rat(250, 9)>>

\* C24: a tick never overshoots: afterwards current lies between its value before
\* the tick and the target, inclusive, whatever the distance and the deltaMS.
C24_TickNeverOvershoots ==
  animCall.op = "animate"
    => \/ LessEq(animWas.current, animCurrent) /\ LessEq(animCurrent, animTarget)
       \/ LessEq(animTarget, animCurrent) /\ LessEq(animCurrent, animWas.current)

\* C25: with the target fixed and the ticker running, current reaches the target
\* after finitely many ticks and stays there.
C25_TicksReachTarget == <>[](animCurrent = animTarget)

\* C26: setTarget(x) changes the target only: current stays and the observer is not
\* notified; setPosition(x) makes current x, notifies the observer once with x, and
\* leaves the target.
C26_SettersFrame ==
  /\ animCall.op = "setTarget"
       => /\ animTarget = animCall.arg
          /\ animCurrent = animWas.current
          /\ animNotified = <<>>
  /\ animCall.op = "setPosition"
       => /\ animCurrent = animCall.arg
          /\ animNotified = <<animCall.arg>>
          /\ animTarget = animWas.target

\* C26 witness: a setTarget moved the target away from a current that an earlier
\* setPosition had set
C26_Witness ==
  /\ animCall.op = "setTarget"
  /\ animTarget # animWas.target
  /\ animCurrent # animTarget
  /\ animCurrent # Num(0)
  /\ animNotified = <<>>

----------------------------------------------------------------------------
(* Claims about the facade's resize handler (checked under SpecResize) *)

\* C27: after the resize handler, for any new size and whether or not easing was in
\* progress, the rendered pan position and the pan target both equal Layout.getX(),
\* and a tick that follows performs no easing step.
C27_ResizeSyncsPan ==
  /\ [](gestureCall.op = "resize"
          => renderContainerX = layoutX /\ containerTargetX = layoutX)
  /\ [][gestureCall.op = "resize" /\ gestureCall'.op = "tick"
          => renderContainerX' = renderContainerX]_vars

\* C27 witness: the resize arrived while the rendered position was easing toward a
\* target elsewhere, and changed the width
C27_Witness ==
  /\ gestureCall.op = "resize"
  /\ gestureCall.rendered # gestureCall.target
  /\ width # 800
  /\ renderContainerX = layoutX
  /\ containerTargetX = layoutX

----------------------------------------------------------------------------
(* Claims about the streams of the key controller (checked under SpecKeys) *)

MouseOps == {"mousedown", "mouseup", "mouseenter", "globalmousemove"}
\* the last event belongs to the mouse, or to the touch pointer it names
LastEventOfMouse == lastOp.op \in MouseOps
LastEventOfTouch == lastOp.op \notin MouseOps \cup {"new"}

\* the note the last event's stream held when the event arrived, and holds now
StreamHeldBefore ==
  IF LastEventOfMouse THEN pre.mouseMidi ELSE TouchGet(pre.touchMidiById, lastOp.pointerId)
StreamHeldNow ==
  IF LastEventOfMouse THEN mouseMidi ELSE TouchGet(touchMidiById, lastOp.pointerId)

\* the calls replayed against the held note: a key-down needs a stream holding nothing,
\* a key-up needs the note that is held
RECURSIVE Replay(_, _)
Replay(calls, held) ==
  IF calls = <<>> THEN [alternates |-> TRUE, held |-> held]
  ELSE IF Head(calls).cb = "onKeyDown" /\ held = NoNote
    THEN Replay(Tail(calls), Head(calls).midi)
  ELSE IF Head(calls).cb = "onKeyUp" /\ held # NoNote /\ held = Head(calls).midi
    THEN Replay(Tail(calls), NoNote)
  ELSE [alternates |-> FALSE, held |-> held]

\* a press of a stream that still holds a note
PressedAgain ==
  /\ lastOp.op \in {"mousedown", "touchstart"}
  /\ StreamHeldBefore # NoNote

\* C30: for every stream of the key controller (the mouse, each touch pointer), as long
\* as the stream is not pressed again while it holds a note, the calls made for the
\* stream alternate key-down(n), key-up(n) with the same n, and after every handler
\* the stream holds exactly the note of its last key-down that has no key-up; the
\* other streams hold what they held.
C30_StreamCallsAlternate ==
  ~PressedAgain
    => /\ Replay(emitted, StreamHeldBefore) = [alternates |-> TRUE, held |-> StreamHeldNow]
       /\ LastEventOfMouse => touchMidiById = pre.touchMidiById
       /\ LastEventOfTouch
            => /\ mouseMidi = pre.mouseMidi
               /\ \A q \in Pointers \ {lastOp.pointerId} :
                    TouchGet(touchMidiById, q) = TouchGet(pre.touchMidiById, q)

\* C30 witness: the pressed mouse glided from one key onto another while a touch
\* pointer held a note: key-up of the old note, then key-down of the new one
C30_Witness ==
  /\ lastOp.op = "mouseenter"
  /\ Len(emitted) = 2
  /\ emitted[1].cb = "onKeyUp"
  /\ emitted[2].cb = "onKeyDown"
  /\ mouseMidi = emitted[2].midi
  /\ \E q \in Pointers : TouchGet(touchMidiById, q) # NoNote

\* C31: a key-down is made for a stream only when the stream presses on a key
\* (mousedown, touchstart) or moves onto another key while it holds a note; a touch
\* pointer that holds no note makes no key-down when it moves over a key, as the mouse
\* makes none when it enters a key without being pressed.
C31_KeyDownNeedsPressOrHeldNote ==
  (\E i \in 1 .. Len(emitted) : emitted[i].cb = "onKeyDown")
    => \/ lastOp.op \in {"mousedown", "touchstart"}
       \/ /\ lastOp.op \in {"mouseenter", "touchmove"}
          /\ StreamHeldBefore # NoNote
          /\ StreamHeldBefore # lastOp.midi

----------------------------------------------------------------------------
(* Claims about the live pan and zoom of the viewport controller *)

\* the horizontal deltas of the wheel events
PanDeltas == {d[1] : d \in WheelDeltas} \ {0}

\* C34: horizontal wheel deltas accumulate: a wheel event with horizontal delta d
\* reports the live pan clamp(p - d), where p is the live pan the previous wheel event
\* reported, also when no tick ran between the two events.
C34_WheelDeltasAccumulate ==
  (gestureCall.op = "wheel" /\ called = 2 /\ gestureCall.reported # NoReport)
    => \E d \in PanDeltas :
         reported = getClampedX(width, widthFactor, Minus(gestureCall.reported, Num(d)), TRUE)

\* C36: a live zoom handler that changes Layout's pan through setWidthFactor reports
\* the new Layout.getX() through onContainerXChange before it returns: the rendered
\* position equals Layout's pan after the handler.
C36_LiveZoomReportsPan ==
  (gestureCall.op \in {"gesturechange", "wheel"} /\ layoutX # gestureCall.x)
    => renderContainerX = layoutX

\* C39: after every mutating Layout call (the constructor, setWidth, setVisibleKeys,
\* setWidthFactor, an accepted setRange) the two representations of the zoom agree:
\* widthFactor * range.visibleKeys = width / 100.
C39_ZoomRepresentationsAgree ==
  StrictEquals(Times(widthFactor, rangeVisibleKeys), Rat(width, NATURAL_KEY_WIDTH))

----------------------------------------------------------------------------
(* Claims about the note roll *)

\* the number of blocks of a note that are still growing
ActiveBlockCount(blks, midi) ==
  IF midi \in DOMAIN blks
    THEN Cardinality({i \in 1 .. Len(blks[midi]) : blks[midi][i].isActive})
    ELSE 0

\* C37: after any sequence of startNote / endNote calls on the facade, for every note
\* in [21, 108] the number of presses held in the keyboard's active-key list equals the
\* number of still-active blocks of that note in the note roll.
C37_PressesMatchActiveBlocks ==
  \A midi \in DrawnKeys : HeldCount(activeKeys, midi) = ActiveBlockCount(blocks, midi)

\* the blocks of the roll, of every note
AllBlocks(blks) == UNION {{blks[midi][i] : i \in 1 .. Len(blks[midi])} : midi \in DOMAIN blks}

\* the graphics objects of a list of blocks, in the list's order
GraphicsOf(list) == [i \in 1 .. Len(list) |-> list[i].graphics]

\* where the bottom edge of a block is after a pass of `distance`, measured from the
\* roll's top edge
BottomAfter(block, distance) ==
  Plus(Minus(Plus(block.y, block.height), distance), Num(getPianoY))

\* the blocks of a list that a pass of `distance` has to keep: the active ones and the
\* ended ones whose bottom edge is still below the top edge
KeptBy(list, distance) ==
  SelectSeq(list, LAMBDA block : block.isActive \/ Less(Num(0), BottomAfter(block, distance)))

\* the blocks of a list that a pass of `distance` has to remove
RemovedBy(list, distance) ==
  SelectSeq(list, LAMBDA block : ~block.isActive /\ LessEq(BottomAfter(block, distance), Num(0)))

\* the number of times an object occurs in a sequence
Occurrences(seq, x) == Cardinality({i \in 1 .. Len(seq) : seq[i] = x})

\* C35: after each render pass of the note roll, for every note the block list holds
\* exactly the blocks that were active or not yet fully above the roll's top edge, in
\* their order, whatever the number and positions of the blocks going off-screen in
\* the pass, and the graphics object of each removed block is in the pool exactly once.
C35_RenderRemovesExactlyOffscreen ==
  lastCall.op = "rollRender" =>
    LET was == lastCall.blocks
        distance == Times(lastCall.deltaMS, ANIMATION_SPEED_FACTOR)
        removed == UNION {{block.graphics : block \in
                             {RemovedBy(was[midi], distance)[i] :
                                i \in 1 .. Len(RemovedBy(was[midi], distance))}} :
                          midi \in DOMAIN was}
    IN /\ DOMAIN blocks \subseteq DOMAIN was
       /\ \A midi \in DOMAIN was :
            GraphicsOf(IF midi \in DOMAIN blocks THEN blocks[midi] ELSE <<>>)
              = GraphicsOf(KeptBy(was[midi], distance))
       /\ Len(graphicsPool.pool) = Len(lastCall.graphicsPool.pool) + Cardinality(removed)
       /\ \A g \in removed : Occurrences(graphicsPool.pool, g) = 1
       /\ \A i \in 1 .. Len(lastCall.graphicsPool.pool) :
            graphicsPool.pool[i] = lastCall.graphicsPool.pool[i]

\* a pass has removed both blocks of a note at once
C35_Witness ==
  /\ lastCall.op = "rollRender"
  /\ \E midi \in DOMAIN lastCall.blocks :
       /\ Len(lastCall.blocks[midi]) = 2
       /\ midi \notin DOMAIN blocks
       /\ Len(graphicsPool.pool) = 2

\* an ended block is in the roll with the graphics object g
Ended(g) == \E block \in AllBlocks(blocks) : block.graphics = g /\ ~block.isActive
\* a block is in the roll with the graphics object g
InRoll(g) == \E block \in AllBlocks(blocks) : block.graphics = g
\* the graphics object g is in the pool
InPool(g) == \E i \in 1 .. Len(graphicsPool.pool) : graphicsPool.pool[i] = g

\* C38: while render ticks with positive deltaMS keep coming, every ended block is
\* eventually removed from the roll and its graphics object handed back to the pool;
\* and no step removes a block that is still active.
C38_EndedBlocksAreRemoved ==
  /\ []<><<RollTick>>_vars
       => \A g \in 1 .. MaxPresses : [](Ended(g) => <>(~InRoll(g) /\ InPool(g)))
  /\ [][\A block \in AllBlocks(blocks) :
          block.isActive => \E after \in AllBlocks(blocks') : after.graphics = block.graphics
       ]_vars

\* a pass has removed an ended block and kept an active one of the same note
C38_Witness ==
  /\ lastCall.op = "rollRender"
  /\ \E midi \in DOMAIN blocks :
       /\ Len(lastCall.blocks[midi]) = 2
       /\ Len(blocks[midi]) = 1
       /\ blocks[midi][1].isActive
       /\ Less(Num(0), blocks[midi][1].height)

\* C40: an active block has y + height = 0 after every step; once a block is ended,
\* its height never changes again and its y never increases, and decreases with every
\* render pass of positive deltaMS.
C40_BlockGeometry ==
  /\ [](\A block \in AllBlocks(blocks) :
          block.isActive => Plus(block.y, block.height) = Num(0))
  /\ [][\A block \in AllBlocks(blocks) : \A after \in AllBlocks(blocks') :
          (after.graphics = block.graphics /\ ~block.isActive)
            => /\ after.height = block.height
               /\ LessEq(after.y, block.y)
               /\ (lastCall'.op = "rollRender" /\ Less(Num(0), lastCall'.deltaMS))
                    => Less(after.y, block.y)
       ]_vars

\* a block that grew while it was held has been ended and has moved up since, next to
\* a block that is still growing
C40_Witness ==
  /\ lastCall.op = "rollRender"
  /\ \E block \in AllBlocks(blocks) :
       /\ ~block.isActive
       /\ Less(Num(0), block.height)
       /\ Less(Plus(block.y, block.height), Num(0))
  /\ \E block \in AllBlocks(blocks) : block.isActive /\ Less(Num(0), block.height)

----------------------------------------------------------------------------
(* Claims about the touch contacts on the roll *)

\* C32: when one of several contacts on the roll ends, only the ended contact's gesture
\* state is discarded: every contact still down keeps the origin (clientX and origin
\* pan) recorded for it.
C32_EndedContactAloneDiscarded ==
  [][ (gestureCall'.op = "touchend" /\ DOMAIN touches' # DOMAIN touches)
        => \A id \in DOMAIN touches' :
             KeyOf(id) \in DOMAIN touchContext
               => /\ KeyOf(id) \in DOMAIN touchContext'
                  /\ touchContext'[KeyOf(id)] = touchContext[KeyOf(id)]
    ]_vars

\* C33: a pinch reference exists only for the pair of contacts it was recorded for:
\* whenever pinchContext is set, the contacts on the screen are that pair.
C33_PinchOnlyForItsPair ==
  pinchContext # NoPinch => pinchOrigin.pair = DOMAIN touches

=============================================================================
